---- MODULE Spec2Model ----
(***************************************************************************)
(* Model of the catalog -> Airtable reconciler (scripts/sync_airtable.py). *)
(* One sync run walks the five tables in the order of AirtableSync.sync;   *)
(* every network request (GET of a table, PATCH of a batch) is one step,   *)
(* so that a human editing the base, or a fatal transport error, can fall  *)
(* between two requests of the same run.                                   *)
(***************************************************************************)
EXTENDS Integers, Sequences, FiniteSets, TLC

(***************************************************************************)
(* Bounds of the model and constants of the program.                       *)
(***************************************************************************)
MaxRuns == 2

MaxShuffled == 3

BATCH_SIZE == 10

TableOrder_links_first == <<"PluginSkillLinks", "EntityDocLinks", "Plugins", "Skills", "Documents">>

TableOrder == <<"Plugins", "Skills", "Documents", "PluginSkillLinks", "EntityDocLinks">>

EntityTables == {"Plugins", "Skills", "Documents"}

StatsKeys == {"plugins", "skills", "documents", "plugin_skill_links", "entity_doc_links"}

StatsKey(table_name) ==
    CASE table_name = "Plugins" -> "plugins"
      [] table_name = "Skills" -> "skills"
      [] table_name = "Documents" -> "documents"
      [] table_name = "PluginSkillLinks" -> "plugin_skill_links"
      [] OTHER -> "entity_doc_links"

PrimaryField(table_name) ==
    CASE table_name = "Plugins" -> "plugin_id"
      [] table_name = "Skills" -> "skill_id"
      [] table_name = "Documents" -> "doc_id"
      [] OTHER -> "link_id"

SyncStats == [created |-> 0, updated |-> 0, unchanged |-> 0, marked_inactive |-> 0, errors |-> <<>>]

(***************************************************************************)
(* Field-ownership schema read by load_mappings: per table, per field, the *)
(* type and the owner ("source") of the field.  A field spec without a     *)
(* source is repo-owned (spec.get("source", "repo")).                      *)
(***************************************************************************)
schema ==
    [Plugins |->
        [plugin_id    |-> [type |-> "singleLineText"],
         source_repo  |-> [type |-> "singleLineText", source |-> "repo"],
         status       |-> [type |-> "singleSelect", source |-> "repo"],
         commands     |-> [type |-> "multilineText", source |-> "repo"],
         has_mcp      |-> [type |-> "checkbox", source |-> "repo"],
         owner_notes  |-> [type |-> "multilineText", source |-> "airtable"],
         quality      |-> [type |-> "number", source |-> "computed"],
         last_synced  |-> [type |-> "dateTime", source |-> "sync"]],
     Skills |->
        [skill_id     |-> [type |-> "singleLineText"],
         source_repo  |-> [type |-> "singleLineText", source |-> "repo"],
         status       |-> [type |-> "singleSelect", source |-> "repo"],
         trigger_phrases |-> [type |-> "multilineText", source |-> "repo"],
         priority     |-> [type |-> "singleSelect", source |-> "airtable"],
         last_synced  |-> [type |-> "dateTime", source |-> "sync"]],
     Documents |->
        [doc_id       |-> [type |-> "singleLineText"],
         source_repo  |-> [type |-> "singleLineText", source |-> "repo"],
         status       |-> [type |-> "singleSelect", source |-> "repo"],
         business_value |-> [type |-> "singleSelect", source |-> "airtable"],
         last_synced  |-> [type |-> "dateTime", source |-> "sync"]]]

Source(spec) == IF "source" \in DOMAIN spec THEN spec.source ELSE "repo"

RemoteOwned(table_name) ==
    {f \in DOMAIN schema[table_name] : Source(schema[table_name][f]) = "airtable"}

(* Keys of a local entity whose value is a list (sorted(commands), ...). *)
ListKeys == {"commands", "agents", "trigger_phrases"}

(***************************************************************************)
(* Generic helpers: Python dicts are functions, None is the empty one.     *)
(***************************************************************************)
None == <<>>

IsNone(x) == DOMAIN x = {}

Merge(f, g) == [k \in DOMAIN f \cup DOMAIN g |-> IF k \in DOMAIN g THEN g[k] ELSE f[k]]

RECURSIVE Join(_)
Join(values) ==
    IF values = <<>> THEN ""
    ELSE IF Len(values) = 1 THEN values[1]
    ELSE values[1] \o ", " \o Join(Tail(values))

RECURSIVE Chunk_oversize(_, _)
Chunk_oversize(records, size) ==
    IF records = <<>> THEN <<>>
    ELSE IF Len(records) <= size + 1 THEN <<records>>
    ELSE <<SubSeq(records, 1, size + 1)>>
            \o Chunk_oversize(SubSeq(records, size + 2, Len(records)), size)

RECURSIVE Chunk(_, _)
Chunk(records, size) ==
    IF records = <<>> THEN <<>>
    ELSE IF Len(records) <= size THEN <<records>>
    ELSE <<SubSeq(records, 1, size)>> \o Chunk(SubSeq(records, size + 1, Len(records)), size)

RECURSIVE Flatten(_)
Flatten(batches) == IF batches = <<>> THEN <<>> ELSE Head(batches) \o Flatten(Tail(batches))

Range(s) == {s[i] : i \in DOMAIN s}

HasKey(record, field) == field \in DOMAIN record.fields /\ record.fields[field] # ""

(***************************************************************************)
(* The remote store.  A table is the sequence of its records in the order  *)
(* the list endpoint returns them; a record is [id, fields].  A PATCH      *)
(* merges the given fields into the record that carries the given id and   *)
(* creates a record for every entry that carries no id; it answers with    *)
(* the written records, identifiers included.                              *)
(***************************************************************************)
IndexOfId(store, rid) == CHOOSE i \in DOMAIN store : store[i].id = rid

RECURSIVE patch_records(_, _, _)
patch_records(store, records, next_id) ==
    IF records = <<>> THEN [store |-> store, results |-> <<>>, next_id |-> next_id]
    ELSE LET r == Head(records)
             isUpdate == "id" \in DOMAIN r /\ \E i \in DOMAIN store : store[i].id = r.id
             written == IF isUpdate
                        THEN LET i == IndexOfId(store, r.id)
                             IN [id |-> r.id, fields |-> Merge(store[i].fields, r.fields)]
                        ELSE [id |-> next_id, fields |-> r.fields]
             store1 == IF isUpdate
                       THEN [store EXCEPT ![IndexOfId(store, r.id)] = written]
                       ELSE Append(store, written)
             rest == patch_records(store1, Tail(records), IF isUpdate THEN next_id ELSE next_id + 1)
         IN [store |-> rest.store, results |-> <<written>> \o rest.results, next_id |-> rest.next_id]

(* A POST creates one record per entry. *)
RECURSIVE create_records(_, _, _)
create_records(store, records, next_id) ==
    IF records = <<>> THEN [store |-> store, results |-> <<>>, next_id |-> next_id]
    ELSE LET written == [id |-> next_id, fields |-> Head(records).fields]
             rest == create_records(Append(store, written), Tail(records), next_id + 1)
         IN [store |-> rest.store, results |-> <<written>> \o rest.results,
             next_id |-> rest.next_id]

(* _request, lines 82-89: the write methods the client can issue. *)
remote_write(method, store, records, next_id) ==
    IF method = "PATCH" THEN patch_records(store, records, next_id)
    ELSE create_records(store, records, next_id)

Request(method, table_name, records, ok) ==
    [method |-> method, table |-> table_name, records |-> records, ok |-> ok]

upsert_batch_post(dry, table_name, store, records, next_id) ==
    IF dry
    THEN [store |-> store, results |-> records, next_id |-> next_id, requests |-> <<>>]
    ELSE LET res == remote_write("POST", store, records, next_id)
         IN [store |-> res.store, results |-> res.results, next_id |-> res.next_id,
             requests |-> <<Request("POST", table_name, records, TRUE)>>]

(* upsert_batch, lines 209-225. *)
upsert_batch(dry, table_name, store, records, next_id) ==
    IF dry
    THEN [store |-> store, results |-> records, next_id |-> next_id, requests |-> <<>>]
    ELSE LET res == remote_write("PATCH", store, records, next_id)
         IN [store |-> res.store, results |-> res.results, next_id |-> res.next_id,
             requests |-> <<Request("PATCH", table_name, records, TRUE)>>]

(* fetch_existing_records: every page of the table, keyed by the primary   *)
(* field; a record without a primary value is dropped, a later record with *)
(* the same key replaces an earlier one.                                   *)
RECURSIVE fetch_existing_records(_, _)
fetch_existing_records(store, primary_field) ==
    IF store = <<>> THEN <<>>
    ELSE LET n == Len(store)
             record == store[n]
             before == fetch_existing_records(SubSeq(store, 1, n - 1), primary_field)
         IN IF HasKey(record, primary_field)
            THEN Merge(before, (record.fields[primary_field] :> record))
            ELSE before

(* Value conversion of prepare_record_fields. *)
ConvertValue(field_name, value, spec) ==
    LET v1 == IF field_name \in ListKeys /\ spec.type \in {"multilineText", "singleLineText"}
              THEN Join(value) ELSE value
    IN IF spec.type = "checkbox" THEN (v1 = TRUE) ELSE v1

prepare_record_fields_localwins(entity, table_name, existing_record, ts) ==
    LET field_specs == IF table_name \in DOMAIN schema THEN schema[table_name] ELSE <<>>
        mapped == {f \in DOMAIN field_specs :
                      Source(field_specs[f]) \notin {"sync", "computed"} /\ f \in DOMAIN entity}
        kept == {f \in DOMAIN field_specs :
                      /\ Source(field_specs[f]) = "airtable"
                      /\ f \notin DOMAIN entity
                      /\ ~IsNone(existing_record)
                      /\ f \in DOMAIN existing_record.fields}
    IN [f \in mapped \cup kept \cup {"last_synced"} |->
            IF f = "last_synced" THEN ts
            ELSE IF f \in kept THEN existing_record.fields[f]
            ELSE ConvertValue(f, entity[f], field_specs[f])]

prepare_record_fields(entity, table_name, existing_record, ts) ==
    LET field_specs == IF table_name \in DOMAIN schema THEN schema[table_name] ELSE <<>>
        protected == {f \in DOMAIN field_specs :
                        /\ Source(field_specs[f]) = "airtable"
                        /\ ~IsNone(existing_record)
                        /\ f \in DOMAIN existing_record.fields}
        mapped == {f \in DOMAIN field_specs :
                        /\ Source(field_specs[f]) \notin {"airtable", "sync", "computed"}
                        /\ f \in DOMAIN entity}
    IN [f \in protected \cup mapped \cup {"last_synced"} |->
            IF f = "last_synced" THEN ts
            ELSE IF f \in protected THEN existing_record.fields[f]
            ELSE ConvertValue(f, entity[f], field_specs[f])]

(* existing.get(key) *)
DictGet(dict, key) == IF key \in DOMAIN dict THEN dict[key] ELSE None

HasId(entity, id_field) == id_field \in DOMAIN entity /\ entity[id_field] # ""

(* sync_entities, lines 242-262: the ids seen and the records queued. *)
seen_entity_ids(entities, id_field) ==
    {entities[i][id_field] : i \in {j \in DOMAIN entities : HasId(entities[j], id_field)}}

RECURSIVE entity_records(_, _, _, _, _)
entity_records(entities, table_name, id_field, existing, ts) ==
    IF entities = <<>> THEN <<>>
    ELSE LET entity == Head(entities)
             rest == entity_records(Tail(entities), table_name, id_field, existing, ts)
         IN IF ~HasId(entity, id_field) THEN rest
            ELSE LET existing_record == DictGet(existing, entity[id_field])
                     fields == prepare_record_fields(entity, table_name, existing_record, ts)
                     record == IF ~IsNone(existing_record)
                               THEN [id |-> existing_record.id, fields |-> fields]
                               ELSE [fields |-> fields]
                 IN <<record>> \o rest

(* id_mapping[pid] = r["id"] for the written records, lines 269-272. *)
RECURSIVE map_results(_, _, _)
map_results(id_mapping, results, primary_field) ==
    IF results = <<>> THEN id_mapping
    ELSE LET r == Head(results)
         IN map_results(IF HasKey(r, primary_field)
                        THEN Merge(id_mapping, (r.fields[primary_field] :> r.id))
                        ELSE id_mapping,
                        Tail(results), primary_field)

(* lines 300-303: existing records fill the gaps of the id mapping. *)
fill_id_mapping(id_mapping, existing) ==
    [k \in DOMAIN id_mapping \cup DOMAIN existing |->
        IF k \in DOMAIN id_mapping THEN id_mapping[k] ELSE existing[k].id]

(* lines 292-298 and 406-412, 481-487. *)
count_stats_swapped(stats_rec, seen, existing) ==
    [stats_rec EXCEPT !.created = @ + Cardinality(seen \cap DOMAIN existing),
                      !.updated = @ + Cardinality(seen \ DOMAIN existing)]

count_stats(stats_rec, seen, existing) ==
    [stats_rec EXCEPT !.updated = @ + Cardinality(seen \cap DOMAIN existing),
                      !.created = @ + Cardinality(seen \ DOMAIN existing)]

(***************************************************************************)
(* mark_inactive, lines 316-337: the batches of status flips for the       *)
(* given records; a record whose status is already "inactive" is skipped.  *)
(***************************************************************************)
RECURSIVE inactive_records_noskip(_)
inactive_records_noskip(records) ==
    IF records = <<>> THEN <<>>
    ELSE <<[id |-> Head(records).id, fields |-> [status |-> "inactive"]]>>
            \o inactive_records_noskip(Tail(records))

RECURSIVE inactive_records(_)
inactive_records(records) ==
    IF records = <<>> THEN <<>>
    ELSE LET record == Head(records)
             rest == inactive_records(Tail(records))
         IN IF "status" \in DOMAIN record.fields /\ record.fields["status"] = "inactive"
            THEN rest
            ELSE <<[id |-> record.id, fields |-> [status |-> "inactive"]]>> \o rest

(* The orders in which "[existing[k] for k in missing]" can list a set. *)
Orderings(keys) ==
    {order \in [1..Cardinality(keys) -> keys] : \A i, j \in DOMAIN order : i # j => order[i] # order[j]}

(* sync_entities, lines 286-290: the keys found remotely and not seen locally. *)
missing_keys_all(existing, seen) == DOMAIN existing

missing_keys(existing, seen) == DOMAIN existing \ seen

(* The keys in the order of the identifiers of their records. *)
RECURSIVE by_record_id(_, _)
by_record_id(fetched, keys) ==
    IF keys = {} THEN <<>>
    ELSE LET first == CHOOSE k \in keys : \A j \in keys : fetched[k].id <= fetched[j].id
         IN <<first>> \o by_record_id(fetched, keys \ {first})

(* Line 290, "[existing[k] for k in missing]": the orders in which the set  *)
(* is listed.  Every order is followed for a set of up to MaxShuffled keys, *)
(* the two orders by record identifier for a larger one.                   *)
iteration_orders(fetched, keys) ==
    IF Cardinality(keys) <= MaxShuffled THEN Orderings(keys)
    ELSE LET up == by_record_id(fetched, keys)
         IN {up, [i \in DOMAIN up |-> up[Len(up) + 1 - i]]}

(***************************************************************************)
(* Link tables.                                                            *)
(***************************************************************************)
plugin_skill_filter(relationships) ==
    SelectSeq(relationships, LAMBDA r : r.source_type = "plugin" /\ r.target_type = "skill")

entity_doc_filter(relationships) ==
    SelectSeq(relationships, LAMBDA r : r.target_type = "document")

plugin_skill_link_id(rel) ==
    rel.source_id \o "::" \o rel.target_id \o "::" \o rel.relation_type

entity_doc_link_id(rel) ==
    rel.source_type \o "::" \o rel.source_id \o "::" \o rel.target_id \o "::" \o rel.relation_type

Confidence(rel) == IF "confidence" \in DOMAIN rel THEN rel.confidence ELSE "inferred"

WithId_never(fields, existing_record) == [fields |-> fields]

WithId(fields, existing_record) ==
    IF ~IsNone(existing_record) THEN [id |-> existing_record.id, fields |-> fields]
    ELSE [fields |-> fields]

RECURSIVE plugin_skill_records(_, _, _, _, _)
plugin_skill_records(links, plugin_ids, skill_ids, existing, ts) ==
    IF links = <<>> THEN <<>>
    ELSE LET rel == Head(links)
             link_id == plugin_skill_link_id(rel)
             base == [link_id |-> link_id, relation_type |-> rel.relation_type,
                      confidence |-> Confidence(rel), last_synced |-> ts]
             f1 == IF rel.source_id \in DOMAIN plugin_ids
                   THEN Merge(base, [plugin |-> <<plugin_ids[rel.source_id]>>]) ELSE base
             fields == IF rel.target_id \in DOMAIN skill_ids
                       THEN Merge(f1, [skill |-> <<skill_ids[rel.target_id]>>]) ELSE f1
         IN <<WithId(fields, DictGet(existing, link_id))>>
               \o plugin_skill_records(Tail(links), plugin_ids, skill_ids, existing, ts)

RECURSIVE entity_doc_records(_, _, _, _)
entity_doc_records(links, doc_ids, existing, ts) ==
    IF links = <<>> THEN <<>>
    ELSE LET rel == Head(links)
             link_id == entity_doc_link_id(rel)
             base == [link_id |-> link_id, entity_type |-> rel.source_type,
                      entity_id |-> rel.source_id, relation_type |-> rel.relation_type,
                      confidence |-> Confidence(rel), last_synced |-> ts]
             fields == IF rel.target_id \in DOMAIN doc_ids
                       THEN Merge(base, [document |-> <<doc_ids[rel.target_id]>>]) ELSE base
         IN <<WithId(fields, DictGet(existing, link_id))>>
               \o entity_doc_records(Tail(links), doc_ids, existing, ts)

seen_link_ids(table_name, relationships) ==
    IF table_name = "PluginSkillLinks"
    THEN {plugin_skill_link_id(r) : r \in Range(plugin_skill_filter(relationships))}
    ELSE {entity_doc_link_id(r) : r \in Range(entity_doc_filter(relationships))}

(***************************************************************************)
(* Inputs: the local entities and the catalog snapshots a run can be given *)
(* (entity lists sorted by id, relationships by (source, target, type), as *)
(* extract_catalog writes them; ids may repeat across repos).              *)
(***************************************************************************)
P1 == [plugin_id |-> "p1", source_repo |-> "r1", status |-> "development",
       commands |-> <<"build", "test">>, has_mcp |-> TRUE]

P1notes == [plugin_id |-> "p1", source_repo |-> "r1", status |-> "development",
            commands |-> <<"build", "test">>, has_mcp |-> TRUE, owner_notes |-> "local"]

P1r2 == [plugin_id |-> "p1", source_repo |-> "r2", status |-> "production",
         commands |-> <<>>, has_mcp |-> FALSE]

S1 == [skill_id |-> "s1", source_repo |-> "r1", trigger_phrases |-> <<"deploy", "ship">>]

SP1 == [skill_id |-> "p1", source_repo |-> "r1", trigger_phrases |-> <<>>]

D9 == [doc_id |-> "d9", source_repo |-> "r1", status |-> "unknown"]

Ships == [source_type |-> "plugin", source_id |-> "p1", target_type |-> "skill",
          target_id |-> "s1", relation_type |-> "ships_with", confidence |-> "inferred"]

ShipsDeclared == [source_type |-> "plugin", source_id |-> "p1", target_type |-> "skill",
                  target_id |-> "s1", relation_type |-> "ships_with", confidence |-> "declared"]

DocOfPlugin == [source_type |-> "plugin", source_id |-> "p1", target_type |-> "document",
                target_id |-> "d9", relation_type |-> "documents", confidence |-> "inferred"]

DocOfSkill == [source_type |-> "skill", source_id |-> "p1", target_type |-> "document",
               target_id |-> "d9", relation_type |-> "documents", confidence |-> "inferred"]

EmptyCatalog == [plugins |-> <<>>, skills |-> <<>>, documents |-> <<>>, relationships |-> <<>>]

FirstCatalog == [plugins |-> <<P1>>, skills |-> <<S1>>, documents |-> <<>>,
                 relationships |-> <<Ships>>]

NotesCatalog == [plugins |-> <<P1notes>>, skills |-> <<S1>>, documents |-> <<D9>>,
                 relationships |-> <<DocOfPlugin, Ships>>]

CollisionCatalog == [plugins |-> <<P1, P1r2>>, skills |-> <<SP1, S1>>, documents |-> <<D9>>,
                     relationships |-> <<DocOfPlugin, DocOfSkill, Ships, ShipsDeclared>>]

Catalogs == {EmptyCatalog, FirstCatalog, NotesCatalog, CollisionCatalog}

EntitiesOf(cat, table_name) ==
    CASE table_name = "Plugins" -> cat.plugins
      [] table_name = "Skills" -> cat.skills
      [] OTHER -> cat.documents

(* Remote bases a first run can meet: a fresh base, and a base that earlier *)
(* runs and its curators have filled.                                      *)
EmptyBase == [Plugins |-> <<>>, Skills |-> <<>>, Documents |-> <<>>,
              PluginSkillLinks |-> <<>>, EntityDocLinks |-> <<>>]

CuratedBase ==
    [Plugins |-> <<[id |-> 1, fields |-> [plugin_id |-> "p1", source_repo |-> "r1",
                                           status |-> "development", commands |-> "build, test",
                                           has_mcp |-> TRUE, owner_notes |-> "v1",
                                           last_synced |-> 0]],
                   [id |-> 2, fields |-> [owner_notes |-> "draft row"]]>>,
     Skills |-> <<[id |-> 3, fields |-> [skill_id |-> "s1", source_repo |-> "r1",
                                          status |-> "inactive", trigger_phrases |-> "deploy, ship",
                                          priority |-> "high", last_synced |-> 0]],
                  [id |-> 4, fields |-> [skill_id |-> "s9", source_repo |-> "r1",
                                          status |-> "inactive", last_synced |-> 0]]>>,
     Documents |-> <<[id |-> 5, fields |-> [doc_id |-> "d9", source_repo |-> "r1",
                                             status |-> "unknown", business_value |-> "high",
                                             last_synced |-> 0]]>>,
     PluginSkillLinks |-> <<[id |-> 6, fields |-> [link_id |-> "p1::s9::ships_with",
                                                    relation_type |-> "ships_with",
                                                    confidence |-> "inferred",
                                                    plugin |-> <<1>>, skill |-> <<4>>,
                                                    last_synced |-> 0]]>>,
     EntityDocLinks |-> <<>>]

Bases == {EmptyBase, CuratedBase}

AllRecords(base) == UNION {Range(base[t]) : t \in DOMAIN base}

FreshId(base) ==
    IF AllRecords(base) = {} THEN 1
    ELSE 1 + (CHOOSE m \in {r.id : r \in AllRecords(base)} :
                 \A r \in AllRecords(base) : r.id <= m)

(* What a curator types into a remote-owned field, and where. *)
HumanValue == "human"

HumanTables == {"Plugins"}

HumanField(table_name) == CHOOSE f \in RemoteOwned(table_name) : TRUE

ZeroStats == [k \in StatsKeys |-> SyncStats]

EmptyMaps == [Plugins |-> <<>>, Skills |-> <<>>, Documents |-> <<>>]

NoRun == [outcome |-> "none", catalog |-> EmptyCatalog, dry_run |-> FALSE,
          stats |-> ZeroStats, edited |-> FALSE]

FailedRun == [outcome |-> "failed", catalog |-> EmptyCatalog, dry_run |-> FALSE,
              stats |-> ZeroStats, edited |-> FALSE]

NoSummary == <<>>

(***************************************************************************)
(* State.                                                                  *)
(***************************************************************************)
VARIABLES
    remote,      \* the base: table name -> sequence of records
    next_id,     \* the identifier the base gives to the next created record
    now,         \* the clock read for last_synced; one tick per run
    catalog,     \* the snapshot of the current run
    dry_run,     \* self.dry_run
    pc,          \* "idle", "fetch", "upsert", "inactive", "done", "failed"
    tbl,         \* position in TableOrder
    existing,    \* the fetched records of the current table, by primary key
    queue,       \* upsert batches of the current table not yet flushed
    iqueue,      \* mark-inactive batches of the current table not yet flushed
    stats,       \* self.stats
    id_maps,     \* plugin_ids, skill_ids, doc_ids returned by sync_entities
    sent,        \* the requests issued in the current run, in order
    exit_code,   \* what main returned for the last finished run (-1: none yet)
    summary,     \* the content of the sync summary file
    remote0,     \* history: the base when the current run started
    edited,      \* history: a curator wrote to the base since the run started
    raced,       \* history: ids of records a curator wrote between their fetch and
                 \*          the flush of the upsert batch that carries them
    prev,        \* history: the run before the current one
    rpc,         \* _request: "off", "loop", "check", "returned", "raised"
    attempt,     \* _request: the attempts sent so far in the call
    response,    \* _request: the response of the last attempt
    responses,   \* _request history: the responses received, in order
    slept,       \* _request history: the durations passed to time.sleep, in order
    result,      \* _request: what the call returned or raised
    env,         \* main: what the invocation found of its credentials and files
    snapshot,    \* validate_catalog.py: the catalog file given to the validator
    verdict,     \* validate_catalog.py: what validate_catalog returned
    collisions,  \* extract_catalog.py: what detect_collisions returned
    content,     \* extract_catalog.py: the files of the repository
    extracted,   \* extract_catalog.py history: the snapshots extracted so far
    page_server,   \* fetch_existing_records: the pages the list endpoint serves
    fetch_pc,      \* fetch_existing_records: "off", "loop", "returned"
    fetch_offset,  \* fetch_existing_records: offset (0: None)
    fetch_records, \* fetch_existing_records: records
    fetch_pages,   \* fetch_existing_records history: the pages received so far
    fetch_param    \* fetch_existing_records history: the offset sent in the last request

vars == <<remote, next_id, now, catalog, dry_run, pc, tbl, existing, queue, iqueue,
          stats, id_maps, sent, exit_code, summary, remote0, edited, raced, prev>>

request_vars == <<rpc, attempt, response, responses, slept, result>>

(* The variables of the other operations, which a sync run leaves alone. *)
validate_vars == <<snapshot, verdict, collisions>>

extract_vars == <<content, extracted>>

fetch_vars == <<page_server, fetch_pc, fetch_offset, fetch_records, fetch_pages, fetch_param>>

aside == <<request_vars, env, validate_vars, extract_vars, fetch_vars>>

Table == TableOrder[tbl]

Running == pc \in {"fetch", "upsert", "inactive"}

(* main, lines 575-590, and load_mappings, lines 111-123: what an           *)
(* invocation needs, in the order in which it is looked at.                *)
PreflightOrder_catalog_first == <<"catalog_file", "token", "base_id", "mappings_file", "schema_file">>

PreflightOrder == <<"token", "base_id", "catalog_file", "mappings_file", "schema_file">>

Envs == [Range(PreflightOrder) -> BOOLEAN]

CompleteEnv == [k \in Range(PreflightOrder) |-> TRUE]

(* The position in the order of the first thing that is missing. *)
first_missing(e) ==
    CHOOSE i \in DOMAIN PreflightOrder :
       /\ ~e[PreflightOrder[i]]
       /\ \A j \in 1..(i - 1) : e[PreflightOrder[j]]

position(item) == CHOOSE i \in DOMAIN PreflightOrder : PreflightOrder[i] = item

(* No _request call is under way. *)
RequestOff ==
    /\ rpc = "off"
    /\ attempt = 0
    /\ response = None
    /\ responses = <<>>
    /\ slept = <<>>
    /\ result = None

(* The validator is not run. *)
ValidateOff ==
    /\ snapshot = None
    /\ verdict = None
    /\ collisions = None

(* No paginated fetch is followed page by page. *)
FetchOff ==
    /\ page_server = <<>>
    /\ fetch_pc = "off"
    /\ fetch_offset = 0
    /\ fetch_records = <<>>
    /\ fetch_pages = {}
    /\ fetch_param = 0

(* The extractor is not run. *)
ExtractOff ==
    /\ content = {}
    /\ extracted = <<>>

Init ==
    /\ remote \in Bases
    /\ RequestOff
    /\ ValidateOff
    /\ ExtractOff
    /\ FetchOff
    /\ env = CompleteEnv
    /\ next_id = FreshId(remote)
    /\ now = 0
    /\ catalog = EmptyCatalog
    /\ dry_run = FALSE
    /\ pc = "idle"
    /\ tbl = 1
    /\ existing = <<>>
    /\ queue = <<>>
    /\ iqueue = <<>>
    /\ stats = ZeroStats
    /\ id_maps = EmptyMaps
    /\ sent = <<>>
    /\ exit_code = -1
    /\ summary = NoSummary
    /\ remote0 = remote
    /\ edited = FALSE
    /\ raced = {}
    /\ prev = NoRun

(* main, lines 604-608, and AirtableSync.__init__: a new run on a snapshot. *)
StartRun(cat, dry) ==
    /\ pc \in {"idle", "done", "failed", "refused"}
    /\ now < MaxRuns
    /\ now' = now + 1
    /\ catalog' = cat
    /\ dry_run' = dry
    /\ pc' = "fetch"
    /\ tbl' = 1
    /\ existing' = <<>>
    /\ queue' = <<>>
    /\ iqueue' = <<>>
    /\ stats' = ZeroStats
    /\ id_maps' = EmptyMaps
    /\ sent' = <<>>
    /\ remote0' = remote
    /\ edited' = FALSE
    /\ raced' = {}
    /\ prev' = CASE pc = "idle" -> prev
                 [] pc \in {"failed", "refused"} -> FailedRun
                 [] OTHER -> [outcome |-> pc, catalog |-> catalog, dry_run |-> dry_run,
                              stats |-> stats, edited |-> edited]
    /\ env' = CompleteEnv
    /\ UNCHANGED <<remote, next_id, exit_code, summary>>
    /\ UNCHANGED <<request_vars, validate_vars, extract_vars, fetch_vars>>

(* main, lines 575-590 and 607-613: an invocation that lacks a credential  *)
(* or a file returns 1 where it finds that out; the catalog file is read   *)
(* once the checks before its reading have passed, and sync raises in      *)
(* load_mappings, its first statement.                                     *)
Refuse(e, cat) ==
    /\ pc \in {"idle", "done", "failed", "refused"}
    /\ now < MaxRuns
    /\ e # CompleteEnv
    /\ env' = e
    /\ now' = now + 1
    /\ catalog' = IF first_missing(e) > position("catalog_file") THEN cat ELSE None
    /\ pc' = "refused"
    /\ exit_code' = 1
    /\ dry_run' = FALSE
    /\ tbl' = 1
    /\ existing' = <<>>
    /\ queue' = <<>>
    /\ iqueue' = <<>>
    /\ stats' = ZeroStats
    /\ id_maps' = EmptyMaps
    /\ sent' = <<>>
    /\ remote0' = remote
    /\ edited' = FALSE
    /\ raced' = {}
    /\ prev' = FailedRun
    /\ UNCHANGED <<remote, next_id, summary>>
    /\ UNCHANGED <<request_vars, validate_vars, extract_vars, fetch_vars>>

(* The records a table's pass queues once the table has been fetched. *)
queued_records(table_name, cat, fetched, maps, ts) ==
    CASE table_name \in EntityTables ->
            entity_records(EntitiesOf(cat, table_name), table_name,
                           PrimaryField(table_name), fetched, ts)
      [] table_name = "PluginSkillLinks" ->
            plugin_skill_records(plugin_skill_filter(cat.relationships),
                                 maps["Plugins"], maps["Skills"], fetched, ts)
      [] OTHER ->
            entity_doc_records(entity_doc_filter(cat.relationships),
                               maps["Documents"], fetched, ts)

seen_ids(table_name, cat) ==
    IF table_name \in EntityTables
    THEN seen_entity_ids(EntitiesOf(cat, table_name), PrimaryField(table_name))
    ELSE seen_link_ids(table_name, cat.relationships)

(* fetch_existing_records succeeds: the pass of the table is laid out. *)
Fetch ==
    /\ pc = "fetch"
    /\ LET fetched == fetch_existing_records(remote[Table], PrimaryField(Table))
       IN /\ existing' = fetched
          /\ queue' = Chunk(queued_records(Table, catalog, fetched, id_maps, now), BATCH_SIZE)
    /\ sent' = Append(sent, Request("GET", Table, <<>>, TRUE))
    /\ pc' = "upsert"
    /\ UNCHANGED <<remote, next_id, now, catalog, dry_run, tbl, iqueue, stats, id_maps,
                   exit_code, summary, remote0, edited, raced, prev>>
    /\ UNCHANGED aside

(* A full batch, or the remaining one, is flushed (lines 264-284, 393-404). *)
UpsertBatch ==
    /\ pc = "upsert"
    /\ queue # <<>>
    /\ queue' = Tail(queue)
    /\ IF dry_run
       THEN UNCHANGED <<remote, next_id, sent, id_maps>>
       ELSE LET res == upsert_batch(dry_run, Table, remote[Table], Head(queue), next_id)
            IN /\ remote' = [remote EXCEPT ![Table] = res.store]
               /\ next_id' = res.next_id
               /\ sent' = sent \o res.requests
               /\ id_maps' = IF Table \in EntityTables
                             THEN [id_maps EXCEPT ![Table] =
                                      map_results(@, res.results, PrimaryField(Table))]
                             ELSE id_maps
    /\ UNCHANGED <<now, catalog, dry_run, pc, tbl, existing, iqueue, stats,
                   exit_code, summary, remote0, edited, raced, prev>>
    /\ UNCHANGED aside

(* Which tables get the mark-inactive step: sync_entities calls it, the    *)
(* two link syncs do not.                                                  *)
marks_missing(table_name) == table_name \in EntityTables

(* All upserts flushed: the missing records are handed to mark_inactive. *)
PlanInactive ==
    /\ pc = "upsert"
    /\ queue = <<>>
    /\ LET missing == IF marks_missing(Table)
                      THEN missing_keys(existing, seen_ids(Table, catalog)) ELSE {}
       IN \E order \in iteration_orders(existing, missing) :
             iqueue' = Chunk(inactive_records([i \in DOMAIN order |-> existing[order[i]]]),
                             BATCH_SIZE)
    /\ pc' = "inactive"
    /\ UNCHANGED <<remote, next_id, now, catalog, dry_run, tbl, existing, queue, stats,
                   id_maps, sent, exit_code, summary, remote0, edited, raced, prev>>
    /\ UNCHANGED aside

(* mark_inactive, lines 328-337: the count a flushed batch adds. *)
inactive_count_written_only(dry, batch) == IF dry THEN 0 ELSE Len(batch)

inactive_count(dry, batch) == Len(batch)

InactiveBatch ==
    /\ pc = "inactive"
    /\ iqueue # <<>>
    /\ iqueue' = Tail(iqueue)
    /\ IF dry_run
       THEN UNCHANGED <<remote, next_id, sent>>
       ELSE LET res == upsert_batch(dry_run, Table, remote[Table], Head(iqueue), next_id)
            IN /\ remote' = [remote EXCEPT ![Table] = res.store]
               /\ next_id' = res.next_id
               /\ sent' = sent \o res.requests
    /\ stats' = [stats EXCEPT ![StatsKey(Table)].marked_inactive =
                                 @ + inactive_count(dry_run, Head(iqueue))]
    /\ UNCHANGED <<now, catalog, dry_run, pc, tbl, existing, queue, id_maps,
                   exit_code, summary, remote0, edited, raced, prev>>
    /\ UNCHANGED aside

generate_summary(dry, st, ts) ==
    [timestamp |-> ts, dry_run |-> dry, stats |-> st,
     totals |-> [created |-> st["plugins"].created + st["skills"].created
                               + st["documents"].created + st["plugin_skill_links"].created
                               + st["entity_doc_links"].created,
                 updated |-> st["plugins"].updated + st["skills"].updated
                               + st["documents"].updated + st["plugin_skill_links"].updated
                               + st["entity_doc_links"].updated,
                 unchanged |-> st["plugins"].unchanged + st["skills"].unchanged
                               + st["documents"].unchanged + st["plugin_skill_links"].unchanged
                               + st["entity_doc_links"].unchanged,
                 marked_inactive |-> st["plugins"].marked_inactive + st["skills"].marked_inactive
                               + st["documents"].marked_inactive
                               + st["plugin_skill_links"].marked_inactive
                               + st["entity_doc_links"].marked_inactive,
                 errors |-> Len(st["plugins"].errors) + Len(st["skills"].errors)
                               + Len(st["documents"].errors)
                               + Len(st["plugin_skill_links"].errors)
                               + Len(st["entity_doc_links"].errors)]]

(* The end of a table's pass: the counters, the id mapping, the next table; *)
(* after the last table sync returns and main writes the summary.          *)
UpdateStats ==
    /\ pc = "inactive"
    /\ iqueue = <<>>
    /\ LET st == [stats EXCEPT ![StatsKey(Table)] =
                      count_stats(@, seen_ids(Table, catalog), existing)]
       IN /\ stats' = st
          /\ IF tbl < Len(TableOrder)
             THEN /\ tbl' = tbl + 1
                  /\ pc' = "fetch"
                  /\ UNCHANGED <<exit_code, summary>>
             ELSE /\ tbl' = tbl
                  /\ pc' = "done"
                  /\ summary' = generate_summary(dry_run, st, now)
                  /\ exit_code' = IF summary'.totals.errors > 0 THEN 1 ELSE 0
    /\ id_maps' = IF Table \in EntityTables
                  THEN [id_maps EXCEPT ![Table] = fill_id_mapping(@, existing)]
                  ELSE id_maps
    /\ UNCHANGED <<remote, next_id, now, catalog, dry_run, existing, queue, iqueue,
                   sent, remote0, edited, raced, prev>>
    /\ UNCHANGED aside

(* A request fails fatally (retries exhausted, or an error status): the    *)
(* exception leaves sync and main returns 1 (lines 607-613).               *)
PendingRequest ==
    CASE pc = "fetch" -> Request("GET", Table, <<>>, FALSE)
      [] pc = "upsert" /\ queue # <<>> /\ ~dry_run -> Request("PATCH", Table, Head(queue), FALSE)
      [] pc = "inactive" /\ iqueue # <<>> /\ ~dry_run -> Request("PATCH", Table, Head(iqueue), FALSE)
      [] OTHER -> None

RequestFails_rollback ==
    /\ Running
    /\ ~IsNone(PendingRequest)
    /\ sent' = Append(sent, PendingRequest)
    /\ pc' = "failed"
    /\ exit_code' = 1
    /\ remote' = remote0
    /\ UNCHANGED <<next_id, now, catalog, dry_run, tbl, existing, queue, iqueue,
                   stats, id_maps, summary, remote0, edited, raced, prev>>
    /\ UNCHANGED aside

RequestFails ==
    /\ Running
    /\ ~IsNone(PendingRequest)
    /\ sent' = Append(sent, PendingRequest)
    /\ pc' = "failed"
    /\ exit_code' = 1
    /\ UNCHANGED <<remote, next_id, now, catalog, dry_run, tbl, existing, queue, iqueue,
                   stats, id_maps, summary, remote0, edited, raced, prev>>
    /\ UNCHANGED aside

(* A curator sets a remote-owned field of a record while the pass of that   *)
(* record's table is under way, at most once in a run.                     *)
HumanEdit(table_name, i) ==
    /\ Running
    /\ Table = table_name
    /\ ~edited
    /\ i \in DOMAIN remote[table_name]
    /\ LET f == HumanField(table_name)
           old == remote[table_name][i].fields
       IN /\ ~(f \in DOMAIN old /\ old[f] = HumanValue)
          /\ remote' = [remote EXCEPT ![table_name][i].fields = Merge(old, (f :> HumanValue))]
    /\ edited' = TRUE
    /\ raced' = IF pc = "upsert"
                    /\ \E r \in Range(Flatten(queue)) :
                          "id" \in DOMAIN r /\ r.id = remote[table_name][i].id
                THEN raced \cup {remote[table_name][i].id}
                ELSE raced
    /\ UNCHANGED <<next_id, now, catalog, dry_run, pc, tbl, existing, queue, iqueue,
                   stats, id_maps, sent, exit_code, summary, remote0, prev>>
    /\ UNCHANGED aside

Next ==
    \/ \E cat \in Catalogs, dry \in BOOLEAN : StartRun(cat, dry)
    \/ Fetch
    \/ UpsertBatch
    \/ PlanInactive
    \/ InactiveBatch
    \/ UpdateStats
    \/ RequestFails
    \/ \E t \in HumanTables : \E i \in 1..Len(remote[t]) : HumanEdit(t, i)

Spec == Init /\ [][Next]_vars

(***************************************************************************)
(* AirtableSync._request, lines 77-109: one call, one step per attempt     *)
(* sent and per branch taken on its response.                              *)
(***************************************************************************)
MAX_ATTEMPTS == 5

DEFAULT_RETRY_AFTER == 30

(* int() of a Retry-After header that holds decimal seconds. *)
ParseInt(text) == CASE text = "1" -> 1 [] text = "2" -> 2

(* The responses the server gives: success, rate limit with and without a  *)
(* Retry-After header, and errors whose body is plain text, a JSON error    *)
(* object with a message, or a JSON error that is a bare string.           *)
Responses ==
    {[status |-> 200, headers |-> <<>>, text |-> "{records}", json |-> [records |-> <<>>]]}
    \cup {[status |-> 429, headers |-> <<>>, text |-> "slow down", json |-> None]}
    \cup {[status |-> 429, headers |-> [h \in {"Retry-After"} |-> v], text |-> "slow down",
           json |-> None] : v \in {"1", "2"}}
    \cup {[status |-> 404, headers |-> <<>>, text |-> "not found", json |-> None],
          [status |-> 422, headers |-> <<>>, text |-> "{error}",
           json |-> [error |-> [dict |-> TRUE, message |-> "INVALID_VALUE"]]],
          [status |-> 500, headers |-> <<>>, text |-> "{error:oops}",
           json |-> [error |-> [dict |-> FALSE]]]}

(* Line 92: int(response.headers.get("Retry-After", 30)). *)
retry_delay_fixed(resp) == DEFAULT_RETRY_AFTER

retry_delay(resp) ==
    IF "Retry-After" \in DOMAIN resp.headers
    THEN ParseInt(resp.headers["Retry-After"])
    ELSE DEFAULT_RETRY_AFTER

(* Line 91. *)
rate_limited(resp) == resp.status = 429

(* Line 96. *)
is_error_server_only(resp) == resp.status >= 500

is_error(resp) == resp.status >= 400

(* Lines 97-103: the body text, or the message of the JSON error object    *)
(* when the body parses and its "error" is an object that has one; every   *)
(* failure on the way is swallowed and leaves the text.                    *)
error_message(resp) ==
    IF IsNone(resp.json) THEN resp.text
    ELSE IF "error" \in DOMAIN resp.json
         THEN IF resp.json.error.dict
              THEN IF "message" \in DOMAIN resp.json.error
                   THEN resp.json.error.message ELSE resp.text
              ELSE resp.text
         ELSE resp.text

(* Line 104: Exception(f"API error {status_code}: {error_msg}"). *)
api_error(resp) ==
    [raised |-> "API error", status_code |-> resp.status, message |-> error_message(resp)]

(* No sync run is under way. *)
SyncOff ==
    /\ remote = EmptyBase
    /\ next_id = FreshId(remote)
    /\ now = 0
    /\ catalog = EmptyCatalog
    /\ dry_run = FALSE
    /\ pc = "idle"
    /\ tbl = 1
    /\ existing = <<>>
    /\ queue = <<>>
    /\ iqueue = <<>>
    /\ stats = ZeroStats
    /\ id_maps = EmptyMaps
    /\ sent = <<>>
    /\ exit_code = -1
    /\ summary = NoSummary
    /\ remote0 = remote
    /\ edited = FALSE
    /\ raced = {}
    /\ prev = NoRun
    /\ env = CompleteEnv

InitRequest ==
    /\ SyncOff
    /\ ValidateOff
    /\ ExtractOff
    /\ FetchOff
    /\ rpc = "loop"
    /\ attempt = 0
    /\ response = None
    /\ responses = <<>>
    /\ slept = <<>>
    /\ result = None

(* Lines 81-89: the next iteration of the loop sends the request. *)
request_send(resp) ==
    /\ rpc = "loop"
    /\ attempt < MAX_ATTEMPTS
    /\ attempt' = attempt + 1
    /\ response' = resp
    /\ responses' = Append(responses, resp)
    /\ rpc' = "check"
    /\ UNCHANGED <<slept, result>>
    /\ UNCHANGED <<vars, env, validate_vars, extract_vars, fetch_vars>>

(* Lines 91-94: sleep, then continue. *)
request_rate_limited ==
    /\ rpc = "check"
    /\ rate_limited(response)
    /\ slept' = Append(slept, retry_delay(response))
    /\ rpc' = "loop"
    /\ UNCHANGED <<attempt, response, responses, result>>
    /\ UNCHANGED <<vars, env, validate_vars, extract_vars, fetch_vars>>

(* Lines 96-104. *)
request_error ==
    /\ rpc = "check"
    /\ ~rate_limited(response)
    /\ is_error(response)
    /\ result' = api_error(response)
    /\ rpc' = "raised"
    /\ UNCHANGED <<attempt, response, responses, slept>>
    /\ UNCHANGED <<vars, env, validate_vars, extract_vars, fetch_vars>>

(* Line 106. *)
request_return ==
    /\ rpc = "check"
    /\ ~rate_limited(response)
    /\ ~is_error(response)
    /\ result' = [returned |-> response.json]
    /\ rpc' = "returned"
    /\ UNCHANGED <<attempt, response, responses, slept>>
    /\ UNCHANGED <<vars, env, validate_vars, extract_vars, fetch_vars>>

(* Lines 108-109: the loop ran out. *)
request_exhausted ==
    /\ rpc = "loop"
    /\ attempt = MAX_ATTEMPTS
    /\ result' = [raised |-> "Max retries exceeded"]
    /\ rpc' = "raised"
    /\ UNCHANGED <<attempt, response, responses, slept>>
    /\ UNCHANGED <<vars, env, validate_vars, extract_vars, fetch_vars>>

NextRequest ==
    \/ \E resp \in Responses : request_send(resp)
    \/ request_rate_limited
    \/ request_error
    \/ request_return
    \/ request_exhausted

SpecRequest == InitRequest /\ [][NextRequest]_request_vars

(* The call runs on one thread and each of its steps ends: the HTTP call   *)
(* returns a response and time.sleep returns after the given duration.     *)
SpecRequestLive == SpecRequest /\ WF_request_vars(NextRequest)

(***************************************************************************)
(* The sync operation started with and without its credentials and files.  *)
(***************************************************************************)
NextPreflight ==
    \/ \E e \in Envs : Refuse(e, FirstCatalog)
    \/ \E dry \in BOOLEAN : StartRun(FirstCatalog, dry)
    \/ Fetch
    \/ UpsertBatch
    \/ PlanInactive
    \/ InactiveBatch
    \/ UpdateStats
    \/ RequestFails
    \/ \E t \in HumanTables : \E i \in 1..Len(remote[t]) : HumanEdit(t, i)

SpecPreflight == Init /\ [][NextPreflight]_vars

(***************************************************************************)
(* validate_catalog.py: the semantic checks of a snapshot.                 *)
(***************************************************************************)
(* validate_relationships, lines 75-83. *)
id_map(cat) ==
    [plugin |-> {p.plugin_id : p \in Range(cat.plugins)},
     skill |-> {k.skill_id : k \in Range(cat.skills)},
     document |-> {d.doc_id : d \in Range(cat.documents)}]

(* Lines 85-95: the errors of one relationship. *)
relationship_errors(rel, ids) ==
    (IF rel.source_type \in DOMAIN ids /\ rel.source_id \notin ids[rel.source_type]
     THEN <<[message |-> "Relationship references unknown", type |-> rel.source_type,
             id |-> rel.source_id]>>
     ELSE <<>>)
    \o (IF rel.target_type \in DOMAIN ids /\ rel.target_id \notin ids[rel.target_type]
        THEN <<[message |-> "Relationship references unknown", type |-> rel.target_type,
                id |-> rel.target_id]>>
        ELSE <<>>)

RECURSIVE relationships_errors(_, _)
relationships_errors(rels, ids) ==
    IF rels = <<>> THEN <<>>
    ELSE relationship_errors(Head(rels), ids) \o relationships_errors(Tail(rels), ids)

validate_relationships(cat) == relationships_errors(cat.relationships, id_map(cat))

(* validate_unique_ids, lines 61-67: cross-repo duplicates are no error. *)
validate_unique_ids(cat) == <<>>

(* The characters [a-z0-9] of the pattern of line 103. *)
LowerOrDigit ==
    {"a", "b", "c", "d", "e", "f", "g", "h", "i", "j", "k", "l", "m", "n", "o", "p", "q",
     "r", "s", "t", "u", "v", "w", "x", "y", "z",
     "0", "1", "2", "3", "4", "5", "6", "7", "8", "9"}

(* Line 103: ^[a-z0-9][a-z0-9-]*[a-z0-9]$|^[a-z0-9]$ on an id given as the *)
(* sequence of its characters.                                             *)
kebab_pattern(id) ==
    /\ id # <<>>
    /\ id[1] \in LowerOrDigit
    /\ id[Len(id)] \in LowerOrDigit
    /\ \A i \in 2..(Len(id) - 1) : id[i] \in LowerOrDigit \cup {"-"}

RECURSIVE format_errors(_, _)
format_errors(entities, field) ==
    IF entities = <<>> THEN <<>>
    ELSE (IF kebab_pattern(Head(entities)[field]) THEN <<>>
          ELSE <<[message |-> "Invalid format", field |-> field,
                  id |-> Head(entities)[field]]>>)
         \o format_errors(Tail(entities), field)

(* validate_id_format, lines 100-113: the plugins, then the skills. *)
validate_id_format(cat) ==
    format_errors(cat.plugins, "plugin_id") \o format_errors(cat.skills, "skill_id")

(* Lines 48-51, the check against schema/catalog.schema.json: the shape    *)
(* the data model gives a relationship, whose confidence is inferred or    *)
(* declared.                                                               *)
RECURSIVE schema_errors(_)
schema_errors(rels) ==
    IF rels = <<>> THEN <<>>
    ELSE (IF Head(rels).confidence \in {"inferred", "declared"} THEN <<>>
          ELSE <<[message |-> "Schema error", at |-> "confidence"]>>)
         \o schema_errors(Tail(rels))

(* validate_catalog, lines 48-58. *)
validate_catalog(cat) ==
    LET errors == schema_errors(cat.relationships) \o validate_unique_ids(cat)
                     \o validate_relationships(cat) \o validate_id_format(cat)
    IN [valid |-> errors = <<>>, errors |-> errors]

(***************************************************************************)
(* The validator run on a catalog file.  The snapshots: one plugin, one    *)
(* skill and one document, one of which has any id of up to MaxIdLen       *)
(* characters, and at most one relationship.                               *)
(***************************************************************************)
MaxIdLen == 3

Alphabet == {"a", "1", "-", "A"}

Ids == UNION {[1..n -> Alphabet] : n \in 1..MaxIdLen}

PlainId == <<"a">>

OtherId == <<"a", "1">>

EntityTypes == {"plugin", "skill", "document"}

RelationshipInputs ==
    {[source_type |-> st, source_id |-> sid, target_type |-> tt, target_id |-> tid,
      relation_type |-> "documents", confidence |-> c] :
        st \in EntityTypes \cup {"agent"}, sid \in {PlainId, OtherId},
        tt \in EntityTypes \cup {"agent"}, tid \in {PlainId, OtherId},
        c \in {"inferred", "guessed"}}

SnapshotOf(type, id, rels) ==
    [plugins |-> <<[plugin_id |-> IF type = "plugin" THEN id ELSE PlainId,
                    source_repo |-> "r1"]>>,
     skills |-> <<[skill_id |-> IF type = "skill" THEN id ELSE PlainId,
                   source_repo |-> "r1"]>>,
     documents |-> <<[doc_id |-> IF type = "document" THEN id ELSE PlainId,
                      source_repo |-> "r1"]>>,
     relationships |-> rels]

Snapshots ==
    {SnapshotOf(type, id, rels) :
        type \in EntityTypes, id \in Ids,
        rels \in {<<>>} \cup {<<rel>> : rel \in RelationshipInputs}}

InitValidate ==
    /\ SyncOff
    /\ RequestOff
    /\ ExtractOff
    /\ FetchOff
    /\ snapshot \in Snapshots
    /\ verdict = None
    /\ collisions = None

(* validate_catalog.py main, line 123. *)
Validate ==
    /\ IsNone(verdict)
    /\ verdict' = validate_catalog(snapshot)
    /\ UNCHANGED <<snapshot, collisions, vars, env, request_vars, extract_vars, fetch_vars>>

NextValidate == Validate

SpecValidate == InitValidate /\ [][NextValidate]_validate_vars

(***************************************************************************)
(* extract_catalog.py, detect_collisions, lines 411-454.                   *)
(***************************************************************************)
(* One category: the dict of first sources, and an entry for every id      *)
(* found in it.                                                            *)
RECURSIVE category_collisions(_, _, _, _)
category_collisions(entities, field, type, sources) ==
    IF entities = <<>> THEN <<>>
    ELSE LET x == Head(entities)
         IN IF x[field] \in DOMAIN sources
            THEN <<[type |-> type, id |-> x[field],
                    repos |-> <<sources[x[field]], x.source_repo>>]>>
                 \o category_collisions(Tail(entities), field, type, sources)
            ELSE category_collisions(Tail(entities), field, type,
                                     Merge(sources, (x[field] :> x.source_repo)))

detect_collisions(cat) ==
    category_collisions(cat.plugins, "plugin_id", "plugin", <<>>)
       \o category_collisions(cat.skills, "skill_id", "skill", <<>>)
       \o category_collisions(cat.documents, "doc_id", "document", <<>>)

(***************************************************************************)
(* detect_collisions run on the snapshots extract_catalog hands it         *)
(* (main, line 519): up to MaxEntities plugins with two ids from two       *)
(* repos, and up to two skills and two documents of one id, each list      *)
(* sorted by id.  find_plugins and find_skills append every manifest of a  *)
(* repo without looking at ids (lines 104-108, 195-199), so two plugins or *)
(* two skills of one repo can share an id; find_documents keeps one        *)
(* document per id and repo (lines 286-288).                               *)
(***************************************************************************)
MaxEntities == 3

Repos == {"r1", "r2"}

SeqsUpTo(S, n) == UNION {[1..k -> S] : k \in 0..n}

CollisionSnapshots ==
    {[plugins |-> ps, skills |-> ks, documents |-> ds, relationships |-> <<>>] :
        ps \in {q \in SeqsUpTo([plugin_id : {"a", "b"}, source_repo : Repos], MaxEntities) :
                   \A i \in 1..(Len(q) - 1) :
                      q[i].plugin_id = "a" \/ q[i + 1].plugin_id = "b"},
        ks \in SeqsUpTo([skill_id : {"a"}, source_repo : Repos], 2),
        ds \in {q \in SeqsUpTo([doc_id : {"a"}, source_repo : Repos], 2) :
                   Len(q) = 2 => q[1].source_repo # q[2].source_repo}}

InitCollisions ==
    /\ SyncOff
    /\ RequestOff
    /\ ExtractOff
    /\ FetchOff
    /\ snapshot \in CollisionSnapshots
    /\ verdict = None
    /\ collisions = None

(* main, line 519; the returned list is kept in a 1-tuple. *)
DetectCollisions ==
    /\ IsNone(collisions)
    /\ collisions' = <<detect_collisions(snapshot)>>
    /\ UNCHANGED <<snapshot, verdict, vars, env, request_vars, extract_vars, fetch_vars>>

NextCollisions == DetectCollisions

SpecCollisions == InitCollisions /\ [][NextCollisions]_validate_vars

(***************************************************************************)
(* extract_catalog.py: the extraction of one repository.  Names, file      *)
(* stems, ids and plugin and skill paths are sequences of characters.      *)
(***************************************************************************)
Digits == <<"0", "1", "2", "3", "4", "5", "6", "7", "8", "9">>

Upper == <<"A", "B", "C", "D", "E", "F", "G", "H", "I", "J", "K", "L", "M", "N", "O", "P",
           "Q", "R", "S", "T", "U", "V", "W", "X", "Y", "Z">>

Lower == <<"a", "b", "c", "d", "e", "f", "g", "h", "i", "j", "k", "l", "m", "n", "o", "p",
           "q", "r", "s", "t", "u", "v", "w", "x", "y", "z">>

(* The characters in the order of their code points, the order in which    *)
(* list.sort compares the id keys (lines 377-379).                         *)
CodePoints == <<" ", "!", "-">> \o Digits \o Upper \o <<"_">> \o Lower

RECURSIVE StrLe(_, _)
StrLe(a, b) ==
    LET Rank(c) == CHOOSE i \in DOMAIN CodePoints : CodePoints[i] = c
    IN IF a = <<>> THEN TRUE
       ELSE IF b = <<>> THEN FALSE
       ELSE IF a[1] = b[1] THEN StrLe(Tail(a), Tail(b))
       ELSE Rank(a[1]) < Rank(b[1])

RECURSIVE Str(_)
Str(chars) == IF chars = <<>> THEN "" ELSE Head(chars) \o Str(Tail(chars))

(* to_kebab_case, line 95: every run of blanks and underscores becomes one *)
(* hyphen.                                                                 *)
RECURSIVE second_sub(_)
second_sub(chars) ==
    IF chars = <<>> THEN <<>>
    ELSE IF Head(chars) \in {" ", "_"}
         THEN IF Len(chars) > 1 /\ chars[2] \in {" ", "_"}
              THEN second_sub(Tail(chars))
              ELSE <<"-">> \o second_sub(Tail(chars))
    ELSE <<Head(chars)>> \o second_sub(Tail(chars))

(* str.strip("-"), line 96. *)
RECURSIVE strip(_)
strip(chars) ==
    IF chars = <<>> THEN <<>>
    ELSE IF Head(chars) = "-" THEN strip(Tail(chars))
    ELSE IF chars[Len(chars)] = "-" THEN strip(SubSeq(chars, 1, Len(chars) - 1))
    ELSE chars

(* to_kebab_case, lines 92-96: drop what is no letter, digit, blank or     *)
(* hyphen; hyphenate the blanks; lower the case; strip the hyphens.        *)
to_kebab_case(chars) ==
    LET kept(c) == c \in Range(Lower) \cup Range(Upper) \cup Range(Digits) \cup {" ", "-"}
        lower(c) == IF c \in Range(Upper)
                    THEN Lower[CHOOSE i \in DOMAIN Upper : Upper[i] = c] ELSE c
        subbed == second_sub(SelectSeq(chars, kept))
    IN strip([i \in DOMAIN subbed |-> lower(subbed[i])])

(* list.sort(key=...), lines 377-380: a stable sort. *)
(* Keys are tuples of strings, compared component by component. *)
RECURSIVE KeyLe(_, _)
KeyLe(a, b) ==
    IF a = <<>> THEN TRUE
    ELSE IF a[1] = b[1] THEN KeyLe(Tail(a), Tail(b))
    ELSE StrLe(a[1], b[1])

(* The list in the order of its keys (keys[i] is the key of list[i]),      *)
(* items of equal keys in the order they had.                              *)
RECURSIVE stable_sort(_, _)
stable_sort(list, keys) ==
    IF list = <<>> THEN <<>>
    ELSE LET n == Len(list)
             before_keys == stable_sort(SubSeq(keys, 1, n - 1), SubSeq(keys, 1, n - 1))
             before == stable_sort(SubSeq(list, 1, n - 1), SubSeq(keys, 1, n - 1))
             k == Cardinality({i \in DOMAIN before_keys : KeyLe(before_keys[i], keys[n])})
         IN SubSeq(before, 1, k) \o <<list[n]>> \o SubSeq(before, k + 1, Len(before))

(* extract_plugin, lines 134-184, of a manifest that declares its name. *)
extract_plugin(manifest, repo_name) ==
    [plugin_id |-> to_kebab_case(manifest.name), name |-> manifest.name,
     version |-> manifest.version, path |-> manifest.path, source_repo |-> repo_name]

(* find_plugins, lines 99-131: every manifest the first scan finds; then   *)
(* the nested manifests, unless a plugin of that id is there.              *)
RECURSIVE second_pass(_, _, _)
second_pass(plugins, manifests, repo_name) ==
    IF manifests = <<>> THEN plugins
    ELSE LET plugin == extract_plugin(Head(manifests), repo_name)
         IN second_pass(IF \E i \in DOMAIN plugins : plugins[i].plugin_id = plugin.plugin_id
                        THEN plugins ELSE Append(plugins, plugin),
                        Tail(manifests), repo_name)

find_plugins(manifests, repo_name) ==
    LET is_nested(manifest) == manifest.nested
    IN second_pass([i \in DOMAIN manifests |-> extract_plugin(manifests[i], repo_name)],
                   SelectSeq(manifests, is_nested), repo_name)

(* str.startswith, line 233. *)
startswith(chars, prefix) ==
    Len(prefix) <= Len(chars) /\ SubSeq(chars, 1, Len(prefix)) = prefix

(* Lines 192 and 232-236: the id the plugin_paths dict holds for the first *)
(* of its keys that the skill path starts with.                            *)
parent_plugin(rel_path, plugins) ==
    LET hits == {i \in DOMAIN plugins : startswith(rel_path, plugins[i].path)}
    IN IF hits = {} THEN None
       ELSE LET first == CHOOSE i \in hits : \A j \in hits : i <= j
                same == {j \in DOMAIN plugins : plugins[j].path = plugins[first].path}
                last == CHOOSE j \in same : \A k \in same : k <= j
            IN <<plugins[last].plugin_id>>

(* extract_skill, lines 211-272, of a skill file with a header block. *)
extract_skill(skill_md, repo_name, plugins) ==
    [skill_id |-> to_kebab_case(skill_md.name), name |-> skill_md.name,
     path |-> skill_md.path, source_repo |-> repo_name,
     is_standalone |-> IsNone(parent_plugin(skill_md.path, plugins))]

skill_relationships(skill_md, plugins) ==
    LET parent == parent_plugin(skill_md.path, plugins)
    IN IF IsNone(parent) THEN <<>>
       ELSE <<[source_type |-> "plugin", source_id |-> parent[1], target_type |-> "skill",
               target_id |-> to_kebab_case(skill_md.name), relation_type |-> "ships_with",
               confidence |-> "inferred"]>>

(* find_skills, lines 187-208. *)
find_skills(skill_mds, repo_name, plugins) ==
    [i \in DOMAIN skill_mds |-> extract_skill(skill_mds[i], repo_name, plugins)]

RECURSIVE find_relationships(_, _)
find_relationships(skill_mds, plugins) ==
    IF skill_mds = <<>> THEN <<>>
    ELSE skill_relationships(Head(skill_mds), plugins)
            \o find_relationships(Tail(skill_mds), plugins)

(* DOC_PATTERN, line 44, on the file name without its .md suffix. *)
doc_pattern(stem) ==
    /\ Len(stem) >= 13
    /\ \A i \in 1..3 : stem[i] \in Range(Digits)
    /\ stem[4] = "-"
    /\ \A i \in 5..6 : stem[i] \in Range(Upper)
    /\ stem[7] = "-"
    /\ \A i \in 8..11 : stem[i] \in Range(Upper)
    /\ stem[12] = "-"

(* DOC_TYPE_MAP, lines 27-40. *)
DOC_TYPE_MAP ==
    ("OD-ARCH" :> "architecture") @@ ("PP-PLAN" :> "planning") @@ ("PP-PRD" :> "spec")
       @@ ("PP-ARD" :> "decision") @@ ("AA-AACR" :> "report") @@ ("AA-AUDT" :> "audit")
       @@ ("DR-STND" :> "spec") @@ ("DR-GUID" :> "guide") @@ ("OD-REF" :> "reference")
       @@ ("OD-STAT" :> "report") @@ ("MC-MEMO" :> "report") @@ ("UC-CASE" :> "use_case")

(* Line 318: f"doc-{hash(rel_path) % 10000:04d}". *)
fallback_id(hash_value) ==
    LET n == hash_value % 10000
    IN <<"d", "o", "c", "-", Digits[((n \div 1000) % 10) + 1], Digits[((n \div 100) % 10) + 1],
         Digits[((n \div 10) % 10) + 1], Digits[(n % 10) + 1]>>

(* extract_document, lines 301-341; hash is the str hash of the process.   *)
extract_document(doc_file, repo_name, hash) ==
    LET stem == doc_file.stem
        matched == doc_pattern(stem)
        kebab == to_kebab_case(stem)
        category_code == IF matched THEN Str(SubSeq(stem, 5, 11)) ELSE ""
    IN [doc_id |-> IF matched
                   THEN SubSeq(stem, 1, 3) \o <<"-">> \o SubSeq(stem, 5, 6) \o <<"-">>
                           \o SubSeq(stem, 8, 11) \o <<"-">> \o SubSeq(stem, 13, Len(stem))
                   ELSE IF kebab # <<>> THEN kebab ELSE fallback_id(hash[doc_file]),
        doc_type |-> IF matched /\ category_code \in DOMAIN DOC_TYPE_MAP
                     THEN DOC_TYPE_MAP[category_code] ELSE "unknown",
        category_code |-> category_code,
        path |-> <<doc_file.dir, doc_file.stem>>,
        source_repo |-> repo_name,
        status |-> "unknown"]

(* find_documents, lines 275-298: the files of the 000-docs directories,   *)
(* then the files anywhere whose name matches DOC_PATTERN; the first       *)
(* document of an id is kept.                                              *)
RECURSIVE keep_unseen(_, _, _, _)
keep_unseen(documents, doc_files, repo_name, hash) ==
    IF doc_files = <<>> THEN documents
    ELSE LET doc == extract_document(Head(doc_files), repo_name, hash)
         IN keep_unseen(IF \E i \in DOMAIN documents : documents[i].doc_id = doc.doc_id
                        THEN documents ELSE Append(documents, doc),
                        Tail(doc_files), repo_name, hash)

find_documents(doc_files, repo_name, hash) ==
    LET in_docs_dir(doc_file) == doc_file.docs_dir
        name_matches(doc_file) == doc_pattern(doc_file.stem)
    IN keep_unseen(keep_unseen(<<>>, SelectSeq(doc_files, in_docs_dir), repo_name, hash),
                   SelectSeq(doc_files, name_matches), repo_name, hash)

(* extract_catalog, lines 344-397, for one repository: scan gives the      *)
(* order in which the file system hands out the files of each kind.        *)
extract_catalog(scan, repo_name, hash, clock) ==
    LET plugins == find_plugins(scan.manifests, repo_name)
        skills == find_skills(scan.skill_mds, repo_name, plugins)
        documents == find_documents(scan.doc_files, repo_name, hash)
        relationships == find_relationships(scan.skill_mds, plugins)
    IN [meta |-> [version |-> "1.0.0", extracted_at |-> clock],
        plugins |-> stable_sort(plugins, [i \in DOMAIN plugins |-> <<plugins[i].plugin_id>>]),
        skills |-> stable_sort(skills, [i \in DOMAIN skills |-> <<skills[i].skill_id>>]),
        documents |-> stable_sort(documents,
                                  [i \in DOMAIN documents |-> <<documents[i].doc_id>>]),
        relationships |-> stable_sort(relationships,
                                      [i \in DOMAIN relationships |->
                                          <<relationships[i].source_id,
                                            relationships[i].target_id,
                                            relationships[i].relation_type>>]),
        warnings |-> <<>>]

(***************************************************************************)
(* The extractor run again and again on one repository whose content does  *)
(* not change.  The files: two plugins whose names give the same id, one   *)
(* of them with a nested manifest; a skill inside the first plugin; two    *)
(* documents in different 000-docs directories whose stems give the same   *)
(* id, a document whose stem gives no id, and a numbered document          *)
(* elsewhere.                                                              *)
(***************************************************************************)
MaxFiles == 4

MaxExtractions == 2

HashValues == {7, 12345}

Manifests ==
    {[kind |-> "manifest", path |-> <<"x">>, nested |-> FALSE, name |-> <<"a">>,
      version |-> "1.0"],
     [kind |-> "manifest", path |-> <<"y">>, nested |-> TRUE, name |-> <<"A">>,
      version |-> "2.0"]}

SkillMds ==
    {[kind |-> "skill_md", path |-> <<"x", "/", "s">>, name |-> <<"m", "y", " ", "s">>]}

DocFiles ==
    {[kind |-> "doc_file", dir |-> "000-docs", docs_dir |-> TRUE, stem |-> <<"a">>],
     [kind |-> "doc_file", dir |-> "sub/000-docs", docs_dir |-> TRUE, stem |-> <<"A">>],
     [kind |-> "doc_file", dir |-> "000-docs", docs_dir |-> TRUE, stem |-> <<"!">>],
     [kind |-> "doc_file", dir |-> "notes", docs_dir |-> FALSE,
      stem |-> <<"0", "0", "1", "-", "A", "A", "-", "A", "A", "C", "R", "-", "x">>]}

Contents ==
    {c \in SUBSET (Manifests \cup SkillMds \cup DocFiles) : Cardinality(c) <= MaxFiles}

(* The orders in which the scans can hand out the files; the files of one  *)
(* directory come one after the other.                                     *)
Scans(files) ==
    {[manifests |-> ms, skill_mds |-> ks, doc_files |-> ds] :
        ms \in Orderings(files \cap Manifests),
        ks \in Orderings(files \cap SkillMds),
        ds \in {d \in Orderings(files \cap DocFiles) :
                   \A i, j, k \in DOMAIN d :
                      (i < j /\ j < k /\ d[i].dir = d[k].dir) => d[j].dir = d[i].dir}}

InitExtract ==
    /\ SyncOff
    /\ RequestOff
    /\ ValidateOff
    /\ FetchOff
    /\ content \in Contents
    /\ extracted = <<>>

(* main, line 516: one run of the extractor, a process of its own. *)
Extract(scan, hash) ==
    /\ Len(extracted) < MaxExtractions
    /\ extracted' = Append(extracted, extract_catalog(scan, "r1", hash, Len(extracted) + 1))
    /\ UNCHANGED <<content, vars, env, request_vars, validate_vars, fetch_vars>>

NextExtract == \E scan \in Scans(content), hash \in [DocFiles -> HashValues] : Extract(scan, hash)

SpecExtract == InitExtract /\ [][NextExtract]_extract_vars

(***************************************************************************)
(* The sync operation given a snapshot that validation rejects: a          *)
(* ships_with relationship whose skill is not in the snapshot.             *)
(***************************************************************************)
DanglingCatalog == [plugins |-> <<P1>>, skills |-> <<>>, documents |-> <<>>,
                    relationships |-> <<Ships>>]

NextInvalidSnapshot ==
    \/ \E dry \in BOOLEAN : StartRun(DanglingCatalog, dry)
    \/ Fetch
    \/ UpsertBatch
    \/ PlanInactive
    \/ InactiveBatch
    \/ UpdateStats
    \/ RequestFails
    \/ \E t \in HumanTables : \E i \in 1..Len(remote[t]) : HumanEdit(t, i)

SpecInvalidSnapshot == Init /\ [][NextInvalidSnapshot]_vars

(***************************************************************************)
(* Runs on snapshots large enough to fill batches: n plugins, each with a  *)
(* plugin -> skill and a plugin -> document relationship, for n around the *)
(* multiples of BATCH_SIZE; a later run on a smaller snapshot leaves more  *)
(* than BATCH_SIZE records to mark inactive.                               *)
(***************************************************************************)
MaxBatches == 2

BatchPlugin(i) ==
    [plugin_id |-> "p" \o Digits[(i \div 10) + 1] \o Digits[(i % 10) + 1], source_repo |-> "r1"]

BatchCatalog(n) ==
    [plugins |-> [i \in 1..n |-> BatchPlugin(i)],
     skills |-> <<>>,
     documents |-> <<>>,
     relationships |->
        [i \in 1..(2 * n) |->
            [source_type |-> "plugin", source_id |-> BatchPlugin((i + 1) \div 2).plugin_id,
             target_type |-> IF i % 2 = 1 THEN "document" ELSE "skill",
             target_id |-> IF i % 2 = 1 THEN "d9" ELSE "s1",
             relation_type |-> IF i % 2 = 1 THEN "documents" ELSE "ships_with",
             confidence |-> "inferred"]]]

BatchCatalogs ==
    {BatchCatalog(n) : n \in {0, 1} \cup {k * BATCH_SIZE + d : k \in 1..MaxBatches, d \in {0, 1}}}

NextBatch ==
    \/ \E cat \in BatchCatalogs, dry \in BOOLEAN : StartRun(cat, dry)
    \/ Fetch
    \/ UpsertBatch
    \/ PlanInactive
    \/ InactiveBatch
    \/ UpdateStats

SpecBatch == Init /\ [][NextBatch]_vars

(***************************************************************************)
(* fetch_existing_records followed page by page (lines 125-150).  The list *)
(* endpoint serves a chain of pages; every page but the last carries the   *)
(* token of the page after it, and the last one carries none, or, on a     *)
(* server that never ends the listing, the token of the first page again.  *)
(* A record sits on one page of the chain; records may lack the primary    *)
(* field or share its value.                                               *)
(***************************************************************************)
MaxPages == 3

MaxPageLen == 2

ListedRecords ==
    {[id |-> 1, fields |-> [plugin_id |-> "p1", status |-> "development"]],
     [id |-> 2, fields |-> [plugin_id |-> "p2", status |-> "inactive"]],
     [id |-> 3, fields |-> [owner_notes |-> "draft row"]],
     [id |-> 4, fields |-> [plugin_id |-> "p1", status |-> "production"]]}

PageContents == UNION {Orderings(c) : c \in {d \in SUBSET ListedRecords : Cardinality(d) <= MaxPageLen}}

Servers ==
    UNION {{[i \in 1..n |-> [records |-> contents[i],
                             offset |-> IF i < n THEN i + 1 ELSE last]] :
               contents \in {c \in [1..n -> PageContents] :
                                \A i, j \in 1..n : i # j => Range(c[i]) \cap Range(c[j]) = {}},
               last \in {0, 1}} :
           n \in 1..MaxPages}

(* The page the endpoint answers with: the first one when no offset is sent. *)
serve(server, param) == server[IF param = 0 THEN 1 ELSE param]

InitFetch ==
    /\ SyncOff
    /\ RequestOff
    /\ ValidateOff
    /\ content = {}
    /\ extracted = <<>>
    /\ page_server \in Servers
    /\ fetch_pc = "loop"
    /\ fetch_offset = 0
    /\ fetch_records = <<>>
    /\ fetch_pages = {}
    /\ fetch_param = 0

(* Lines 134-148: one turn of the loop, which asks for a page, files its   *)
(* records under their primary value and keeps the token of the answer.    *)
fetch_page ==
    /\ fetch_pc = "loop"
    /\ LET page == serve(page_server, fetch_offset)
       IN /\ fetch_records' = Merge(fetch_records,
                                    fetch_existing_records(page.records, "plugin_id"))
          /\ fetch_offset' = page.offset
          /\ fetch_pc' = IF page.offset = 0 THEN "returned" ELSE "loop"
    /\ fetch_param' = fetch_offset
    /\ fetch_pages' = fetch_pages \cup {IF fetch_offset = 0 THEN 1 ELSE fetch_offset}
    /\ UNCHANGED <<page_server, vars, env, request_vars, validate_vars, extract_vars>>

NextFetch == fetch_page

SpecFetch == InitFetch /\ [][NextFetch]_fetch_vars

(* The loop is run by the one thread of the program, which does not stop   *)
(* between two turns.                                                      *)
SpecFetchLive == SpecFetch /\ WF_fetch_vars(NextFetch)

(***************************************************************************)
(* Vocabulary of the properties.                                           *)
(***************************************************************************)
Index(table_name) == CHOOSE i \in DOMAIN TableOrder : TableOrder[i] = table_name

(* The pass of the table is over in the current run. *)
PassDone(table_name) == pc # "idle" /\ (pc = "done" \/ tbl > Index(table_name))

(* The upserts of the current table have all been flushed. *)
UpsertsFlushed == pc = "inactive"

RecordsWithId(base, table_name, rid) == {r \in Range(base[table_name]) : r.id = rid}

StatusOf(record) == IF "status" \in DOMAIN record.fields THEN record.fields["status"] ELSE ""

(* The records sent in the write requests of the run to a table, in order. *)
RECURSIVE SentRecords(_, _)
SentRecords(requests, table_name) ==
    IF requests = <<>> THEN <<>>
    ELSE LET q == Head(requests)
         IN (IF q.table = table_name /\ q.method # "GET" /\ q.ok THEN q.records ELSE <<>>)
               \o SentRecords(Tail(requests), table_name)

(* The run before this one ran the same snapshot to its end, and no curator *)
(* has written since it started.                                           *)
RerunOf(dry) ==
    /\ prev.outcome = "done"
    /\ prev.dry_run = dry
    /\ prev.catalog = catalog
    /\ ~prev.edited
    /\ ~edited

(***************************************************************************)
(* C1 -- Protected-field preservation: once the upserts of an entity table *)
(* are flushed and no curator wrote during the run, every remote-owned     *)
(* field that the fetched record of a local entity held still holds the    *)
(* fetched value in the base, whatever the local entity carries under that *)
(* name.                                                                   *)
(***************************************************************************)
C1_ProtectedFieldPreserved ==
    (UpsertsFlushed /\ Table \in EntityTables /\ ~edited) =>
        \A k \in seen_ids(Table, catalog) \cap DOMAIN existing :
            \A f \in RemoteOwned(Table) \cap DOMAIN existing[k].fields :
                \A r \in RecordsWithId(remote, Table, existing[k].id) :
                    f \in DOMAIN r.fields /\ r.fields[f] = existing[k].fields[f]

C1_Witness ==
    /\ UpsertsFlushed /\ Table = "Plugins" /\ ~edited /\ ~dry_run
    /\ catalog = NotesCatalog
    /\ "p1" \in DOMAIN existing
    /\ "owner_notes" \in DOMAIN existing["p1"].fields
    /\ existing["p1"].fields["owner_notes"] = "v1"
    /\ \E i \in DOMAIN sent : sent[i].method = "PATCH" /\ sent[i].table = "Plugins"
    /\ \E r \in RecordsWithId(remote, "Plugins", existing["p1"].id) : r.fields["last_synced"] = now

(***************************************************************************)
(* C2 -- No clobbering under a race: a remote-owned field that a curator   *)
(* set after the record was fetched and before its upsert batch was sent   *)
(* still holds the curator's value once the upserts are flushed.           *)
(***************************************************************************)
C2_NoClobberUnderRace ==
    UpsertsFlushed =>
        \A t \in HumanTables : \A r \in Range(remote[t]) :
            r.id \in raced =>
                HumanField(t) \in DOMAIN r.fields /\ r.fields[HumanField(t)] = HumanValue

(***************************************************************************)
(* C3 -- Never hard delete: the reconciler only issues GET and PATCH, every *)
(* record the base held when the run started is still there, and no table  *)
(* has fewer records than at the start of the run.                         *)
(***************************************************************************)
C3_NeverHardDelete ==
    /\ \A i \in DOMAIN sent : sent[i].method \in {"GET", "PATCH"}
    /\ \A t \in DOMAIN remote :
          /\ Len(remote[t]) >= Len(remote0[t])
          /\ \A r \in Range(remote0[t]) : RecordsWithId(remote, t, r.id) # {}

C3_Witness ==
    /\ pc = "done" /\ ~dry_run
    /\ catalog = EmptyCatalog
    /\ remote0 = CuratedBase
    /\ \E i \in DOMAIN sent : sent[i].method = "PATCH" /\ sent[i].table = "Documents"
    /\ \E r \in Range(remote["Documents"]) : StatusOf(r) = "inactive"
    /\ Len(remote["Documents"]) = Len(remote0["Documents"])

(* The records of a table that the soft delete is owed to: those the base   *)
(* held when the run started under a primary value that the snapshot does  *)
(* not hold, and that were not inactive.                                   *)
OwedInactive(table_name) ==
    {r \in Range(remote0[table_name]) :
        /\ HasKey(r, PrimaryField(table_name))
        /\ r.fields[PrimaryField(table_name)] \notin seen_ids(table_name, catalog)
        /\ StatusOf(r) # "inactive"}

SoftDeleted(table_name) ==
    /\ \A r \in OwedInactive(table_name) :
          \A r2 \in RecordsWithId(remote, table_name, r.id) : StatusOf(r2) = "inactive"
    /\ stats[StatsKey(table_name)].marked_inactive = Cardinality(OwedInactive(table_name))

(***************************************************************************)
(* C4 -- Soft delete in entity tables: after the pass of Plugins, Skills   *)
(* or Documents in a run that wrote and ended well, every record fetched   *)
(* under a primary value absent from the snapshot, and not inactive, is    *)
(* inactive, and marked_inactive counts exactly those records; with d9     *)
(* active remotely and no document in the snapshot the Documents counts    *)
(* are marked_inactive = 1, created = 0, updated = 0.                      *)
(***************************************************************************)
C4_SoftDeleteEntities ==
    (pc = "done" /\ ~dry_run) =>
        /\ \A t \in EntityTables : SoftDeleted(t)
        /\ (catalog.documents = <<>> /\ remote0["Documents"] = CuratedBase["Documents"]) =>
              /\ stats["documents"].marked_inactive = 1
              /\ stats["documents"].created = 0
              /\ stats["documents"].updated = 0

(* The records of the current table that the fetch returned under a key    *)
(* the snapshot does not hold.                                             *)
FetchedMissing == {existing[k] : k \in DOMAIN existing \ seen_ids(Table, catalog)}

(***************************************************************************)
(* C5 -- Idempotent inactivation: when the snapshot of the previous run    *)
(* (which wrote and ended well) is run again with no curator in between,   *)
(* every fetched record that is missing from the snapshot is already       *)
(* inactive, no write of the run names such a record, and marked_inactive  *)
(* stays 0 for the entity tables; and no mark-inactive batch ever holds a  *)
(* record whose fetched status is "inactive".                              *)
(***************************************************************************)
C5_IdempotentInactivation ==
    /\ \A b \in Range(iqueue) : \A r \in Range(b) :
          \A k \in DOMAIN existing :
              existing[k].id = r.id => StatusOf(existing[k]) # "inactive"
    /\ (RerunOf(FALSE) /\ pc \in {"upsert", "inactive"} /\ Table \in EntityTables) =>
          /\ \A r \in FetchedMissing : StatusOf(r) = "inactive"
          /\ \A q \in Range(SentRecords(sent, Table)) :
                "id" \in DOMAIN q => \A r \in FetchedMissing : r.id # q.id
          /\ stats[StatsKey(Table)].marked_inactive = 0
    /\ (RerunOf(FALSE) /\ pc = "done") =>
          \A t \in EntityTables : stats[StatsKey(t)].marked_inactive = 0

C5_Witness ==
    /\ RerunOf(FALSE) /\ pc = "done" /\ ~dry_run
    /\ catalog = EmptyCatalog
    /\ prev.stats["documents"].marked_inactive = 1
    /\ prev.stats["plugins"].marked_inactive = 1
    /\ stats["documents"].marked_inactive = 0
    /\ \E r \in Range(remote["Documents"]) : r.fields["doc_id"] = "d9" /\ StatusOf(r) = "inactive"

(***************************************************************************)
(* C6 -- Idempotent re-run: when the snapshot of the previous run (which   *)
(* wrote and ended well) is run again with no curator in between, every    *)
(* table counts its already-synced records as unchanged, with created = 0  *)
(* and updated = 0, and the base is left as it was.                        *)
(***************************************************************************)
C6_RerunUnchanged ==
    (RerunOf(FALSE) /\ pc = "done" /\ ~dry_run) =>
        /\ \A t \in Range(TableOrder) :
              /\ stats[StatsKey(t)].created = 0
              /\ stats[StatsKey(t)].updated = 0
              /\ stats[StatsKey(t)].unchanged =
                    Cardinality({r \in Range(remote0[t]) :
                                    /\ HasKey(r, PrimaryField(t))
                                    /\ r.fields[PrimaryField(t)] \in seen_ids(t, catalog)})
        /\ remote = remote0

(* The relationships of the snapshot that a link table is fed. *)
LinksOf(table_name) ==
    IF table_name = "PluginSkillLinks" THEN plugin_skill_filter(catalog.relationships)
    ELSE entity_doc_filter(catalog.relationships)

LinkId(table_name, rel) ==
    IF table_name = "PluginSkillLinks" THEN plugin_skill_link_id(rel) ELSE entity_doc_link_id(rel)

Triple(rel) == <<rel.source_id, rel.target_id, rel.relation_type>>

(* The link ids under which the relationships of one triple are written. *)
LinkIdsOfTriple(table_name, triple) ==
    {LinkId(table_name, r) : r \in {x \in Range(LinksOf(table_name)) : Triple(x) = triple}}

(***************************************************************************)
(* C7 -- Relationship upsert collapse: after the pass of a link table in a *)
(* run that wrote, the relationships that share a (source_id, target_id,   *)
(* relation_type) and had no prior record are sent as one record and stand *)
(* as one record in the table.                                             *)
(***************************************************************************)
C7_RelationshipCollapse ==
    \A t \in {"PluginSkillLinks", "EntityDocLinks"} :
        (PassDone(t) /\ ~dry_run /\ pc # "failed") =>
            \A rel \in Range(LinksOf(t)) :
                LET ids == LinkIdsOfTriple(t, Triple(rel))
                    prior == {r \in Range(remote0[t]) : HasKey(r, "link_id") /\ r.fields["link_id"] \in ids}
                    written == SentRecords(sent, t)
                IN prior = {} =>
                      /\ Cardinality({i \in DOMAIN written : written[i].fields["link_id"] \in ids}) = 1
                      /\ Cardinality({r \in Range(remote[t]) :
                                         HasKey(r, "link_id") /\ r.fields["link_id"] \in ids}) = 1

(***************************************************************************)
(* C8 -- Soft delete in the link tables: after the pass of a link table in *)
(* a run that wrote and ended well, every record whose link_id is not the  *)
(* key of a relationship of the snapshot, and that was not inactive, is    *)
(* inactive and counted in marked_inactive.                                *)
(***************************************************************************)
C8_SoftDeleteLinks ==
    (pc = "done" /\ ~dry_run) =>
        \A t \in {"PluginSkillLinks", "EntityDocLinks"} : SoftDeleted(t)

(***************************************************************************)
(* C9 -- First sync: the snapshot {plugin p1, skill s1, p1 ships_with s1}  *)
(* run to its end against an empty base returns created = 1 for plugins,   *)
(* skills and plugin_skill_links, and marked_inactive = 0 and updated = 0  *)
(* for every table.                                                        *)
(***************************************************************************)
C9_FirstSync ==
    (pc = "done" /\ catalog = FirstCatalog /\ remote0 = EmptyBase) =>
        /\ stats["plugins"].created = 1
        /\ stats["skills"].created = 1
        /\ stats["plugin_skill_links"].created = 1
        /\ \A k \in StatsKeys : stats[k].marked_inactive = 0 /\ stats[k].updated = 0
        /\ summary.stats = stats

C9_Witness ==
    /\ pc = "done" /\ catalog = FirstCatalog /\ remote0 = EmptyBase /\ ~dry_run
    /\ Len(remote["Plugins"]) = 1 /\ Len(remote["Skills"]) = 1
    /\ Len(remote["PluginSkillLinks"]) = 1
    /\ summary.totals.created = 3

(***************************************************************************)
(* C10 -- Dry run: a dry run issues no write request and, curators aside,  *)
(* leaves the base as it found it; and a run that writes, started on the   *)
(* same snapshot from the base a finished dry run left, returns the same   *)
(* created, updated and marked_inactive counts as that dry run.            *)
(***************************************************************************)
C10_DryRun ==
    /\ dry_run => \A i \in DOMAIN sent : sent[i].method = "GET"
    /\ (dry_run /\ ~edited) => (remote = remote0 /\ next_id = FreshId(remote0))
    /\ (RerunOf(TRUE) /\ pc = "done" /\ ~dry_run) =>
          \A k \in StatsKeys :
              /\ stats[k].created = prev.stats[k].created
              /\ stats[k].updated = prev.stats[k].updated
              /\ stats[k].marked_inactive = prev.stats[k].marked_inactive

C10_Witness ==
    /\ RerunOf(TRUE) /\ pc = "done" /\ ~dry_run
    /\ catalog = FirstCatalog
    /\ prev.stats["plugins"].updated = 1
    /\ prev.stats["skills"].marked_inactive = 0
    /\ prev.stats["documents"].marked_inactive = 1
    /\ prev.stats["plugin_skill_links"].created = 1
    /\ remote # remote0

(***************************************************************************)
(* Vocabulary of the _request properties.                                  *)
(***************************************************************************)
RequestEnded == rpc \in {"returned", "raised"}

RateLimitedAt(i) == responses[i].status = 429

(* The rate-limit responses received so far that have been slept on. *)
SleptOn == {i \in DOMAIN responses : RateLimitedAt(i) /\ (i < attempt \/ rpc # "check")}

(***************************************************************************)
(* C11 -- Bounded retry: a _request call sends at most 5 attempts; the     *)
(* k-th sleep follows the k-th rate-limit response and lasts its           *)
(* Retry-After value, or 30 without one; the call raises the fatal "Max    *)
(* retries exceeded" exactly after 5 rate-limited attempts; a call that    *)
(* returns does so with its last response, a success, after attempts that  *)
(* were all rate-limited before it; and the call always ends.              *)
(***************************************************************************)
C11_Bounded ==
    /\ attempt <= 5
    /\ Len(responses) = attempt
    /\ \A i \in DOMAIN responses : i < attempt => RateLimitedAt(i)
    /\ Len(slept) = Cardinality(SleptOn)
    /\ \A i \in DOMAIN slept :
          slept[i] = IF "Retry-After" \in DOMAIN responses[i].headers
                     THEN ParseInt(responses[i].headers["Retry-After"])
                     ELSE 30
    /\ (rpc = "raised" /\ result = [raised |-> "Max retries exceeded"])
          <=> (RequestEnded /\ attempt = 5 /\ RateLimitedAt(5))
    /\ rpc = "returned" =>
          /\ result = [returned |-> responses[attempt].json]
          /\ responses[attempt].status < 400

C11_BoundedRetry == [](C11_Bounded) /\ <>RequestEnded

C11_Witness ==
    /\ rpc = "returned"
    /\ attempt = 3
    /\ slept = <<30, 2>>

(***************************************************************************)
(* C12 -- Non-rate-limit errors are not retried: once the call has looked  *)
(* at a response with a status of 400 or more other than 429, it has raised *)
(* an error with that status code and the server's message, that response  *)
(* is the last attempt sent, and every sleep made was made for a           *)
(* rate-limit response before it.                                          *)
(***************************************************************************)
ServerMessage(resp) ==
    IF ~IsNone(resp.json) /\ resp.json.error.dict THEN resp.json.error.message ELSE resp.text

C12_ErrorsNotRetried ==
    \A i \in DOMAIN responses :
       (responses[i].status >= 400 /\ responses[i].status # 429
          /\ (i < attempt \/ rpc # "check"))
       => /\ rpc = "raised"
          /\ result = [raised |-> "API error", status_code |-> responses[i].status,
                       message |-> ServerMessage(responses[i])]
          /\ i = attempt
          /\ i = Len(responses)
          /\ Len(slept) = i - 1

C12_Witness ==
    /\ rpc = "raised"
    /\ attempt = 2
    /\ result = [raised |-> "API error", status_code |-> 422, message |-> "INVALID_VALUE"]
    /\ slept = <<1>>

(***************************************************************************)
(* C13 -- Partial failure, no rollback: once a request of a run has failed *)
(* fatally, it is the last request of the run, every request before it     *)
(* succeeded, the base holds exactly what those requests wrote on top of   *)
(* the base the run started from (no curator having written meanwhile),    *)
(* and main has returned 1.                                                *)
(***************************************************************************)
RECURSIVE Applied(_, _, _)
Applied(base, requests, nid) ==
    IF requests = <<>> THEN base
    ELSE LET q == Head(requests)
         IN IF q.ok /\ q.method # "GET"
            THEN LET res == remote_write(q.method, base[q.table], q.records, nid)
                 IN Applied([base EXCEPT ![q.table] = res.store], Tail(requests), res.next_id)
            ELSE Applied(base, Tail(requests), nid)

C13_NoRollback ==
    pc = "failed" =>
       /\ exit_code = 1
       /\ sent # <<>>
       /\ ~sent[Len(sent)].ok
       /\ \A i \in 1..(Len(sent) - 1) : sent[i].ok
       /\ ~edited => remote = Applied(remote0, sent, FreshId(remote0))

C13_Witness ==
    /\ pc = "failed"
    /\ ~edited
    /\ remote # remote0
    /\ \E i \in DOMAIN sent : sent[i].ok /\ sent[i].method = "PATCH" /\ sent[i].table = "Skills"
    /\ sent[Len(sent)].table = "Documents"

(***************************************************************************)
(* C14 -- Summary on partial failure: when a run has failed after at least *)
(* one write was committed, the sync summary file holds the summary of     *)
(* that run, and for every table its created, updated and marked_inactive  *)
(* counts add up to the records committed to that table before the         *)
(* failure.                                                                *)
(***************************************************************************)
Committed(table_name) == Len(SentRecords(sent, table_name))

C14_SummaryOnFailure ==
    (pc = "failed" /\ \E t \in DOMAIN remote : Committed(t) > 0) =>
       /\ ~IsNone(summary)
       /\ summary.timestamp = now
       /\ \A t \in DOMAIN remote :
             LET st == summary.stats[StatsKey(t)]
             IN st.created + st.updated + st.marked_inactive = Committed(t)

(***************************************************************************)
(* C15 -- Validate-then-write: a run of the sync operation on a snapshot   *)
(* that fails validation (here: a relationship that names an entity the    *)
(* snapshot does not hold) issues no PATCH.                                *)
(***************************************************************************)
C15_ValidateThenWrite ==
    validate_relationships(catalog) # <<>> =>
       \A i \in DOMAIN sent : sent[i].method # "PATCH"

(***************************************************************************)
(* C16 -- Preflight: an invocation without the bearer token or without the *)
(* base id has returned 1 with the catalog not read and no request made;   *)
(* an invocation that has both and the catalog file but lacks the mapping  *)
(* file or the schema file has returned 1 with no request made.            *)
(***************************************************************************)
C16_Preflight ==
    /\ (pc # "idle" /\ (~env["token"] \/ ~env["base_id"])) =>
          /\ exit_code = 1
          /\ IsNone(catalog)
          /\ sent = <<>>
          /\ remote = remote0
    /\ (pc # "idle" /\ env["token"] /\ env["base_id"] /\ env["catalog_file"]
          /\ (~env["mappings_file"] \/ ~env["schema_file"])) =>
          /\ exit_code = 1
          /\ sent = <<>>
          /\ remote = remote0

C16_Witness ==
    /\ pc = "refused"
    /\ env["token"] /\ env["base_id"] /\ env["catalog_file"] /\ env["mappings_file"]
    /\ ~env["schema_file"]
    /\ catalog = FirstCatalog
    /\ now = 2
    /\ prev = FailedRun
    /\ remote # EmptyBase

(***************************************************************************)
(* Vocabulary of the validator properties.                                 *)
(***************************************************************************)
Validated == ~IsNone(verdict)

IdsOfType(cat, type) ==
    CASE type = "plugin" -> {p.plugin_id : p \in Range(cat.plugins)}
      [] type = "skill" -> {k.skill_id : k \in Range(cat.skills)}
      [] type = "document" -> {d.doc_id : d \in Range(cat.documents)}
      [] OTHER -> {}

(***************************************************************************)
(* C17 -- Referential integrity of a validated snapshot: when validation   *)
(* has reported the snapshot valid, the source_id of every relationship is *)
(* the id of an entity of its source_type in the snapshot, and its         *)
(* target_id the id of an entity of its target_type; so a relationship     *)
(* that names an absent entity, or a type other than plugin, skill and     *)
(* document, has made the snapshot invalid.                                *)
(***************************************************************************)
C17_ReferentialIntegrity ==
    (Validated /\ verdict.valid) =>
       \A i \in DOMAIN snapshot.relationships :
          LET rel == snapshot.relationships[i]
          IN /\ rel.source_id \in IdsOfType(snapshot, rel.source_type)
             /\ rel.target_id \in IdsOfType(snapshot, rel.target_type)

(***************************************************************************)
(* C18 -- Id-format validation covers every entity category: when a        *)
(* plugin, skill or document id of the validated snapshot is not           *)
(* kebab-case (lowercase letters and digits, hyphens only inside), the     *)
(* snapshot has been reported invalid with an error that names that id.    *)
(***************************************************************************)
IsKebab(id) ==
    /\ Len(id) >= 1
    /\ \A i \in DOMAIN id :
          \/ id[i] \in {"a", "1"}
          \/ id[i] = "-" /\ 1 < i /\ i < Len(id)

EntityIds(cat) ==
    {p.plugin_id : p \in Range(cat.plugins)} \cup {k.skill_id : k \in Range(cat.skills)}
       \cup {d.doc_id : d \in Range(cat.documents)}

C18_IdFormatAllCategories ==
    Validated =>
       \A id \in EntityIds(snapshot) :
          ~IsKebab(id) =>
             /\ ~verdict.valid
             /\ \E i \in DOMAIN verdict.errors :
                   "id" \in DOMAIN verdict.errors[i] /\ verdict.errors[i].id = id

(***************************************************************************)
(* C19 -- Collision detection: in each category, in snapshot order,        *)
(* detect_collisions has emitted an entry for an occurrence of an id       *)
(* exactly when an earlier entity of the category has the same id and a    *)
(* different repo; the repos of the entry are the repo of the first        *)
(* occurrence of the id and the repo of this occurrence, and they differ.  *)
(***************************************************************************)
CollidesAt(entities, field, i) ==
    \E j \in 1..(i - 1) :
       /\ entities[j][field] = entities[i][field]
       /\ entities[j].source_repo # entities[i].source_repo

FirstOccurrence(entities, field, id) ==
    CHOOSE j \in DOMAIN entities :
       entities[j][field] = id /\ \A k \in 1..(j - 1) : entities[k][field] # id

RECURSIVE ExpectedCollisions(_, _, _, _)
ExpectedCollisions(entities, field, type, i) ==
    IF i > Len(entities) THEN <<>>
    ELSE (IF CollidesAt(entities, field, i)
          THEN <<[type |-> type, id |-> entities[i][field],
                  repos |-> <<entities[FirstOccurrence(entities, field,
                                                       entities[i][field])].source_repo,
                              entities[i].source_repo>>]>>
          ELSE <<>>)
         \o ExpectedCollisions(entities, field, type, i + 1)

C19_CollisionDetection ==
    ~IsNone(collisions) =>
       /\ collisions[1] = ExpectedCollisions(snapshot.plugins, "plugin_id", "plugin", 1)
                             \o ExpectedCollisions(snapshot.skills, "skill_id", "skill", 1)
                             \o ExpectedCollisions(snapshot.documents, "doc_id", "document", 1)
       /\ \A i \in DOMAIN collisions[1] :
             collisions[1][i].repos[1] # collisions[1][i].repos[2]

(***************************************************************************)
(* C20 -- Extraction determinism: the snapshots extracted from the same    *)
(* repository content are equal in every field except the extraction       *)
(* timestamp, whatever the order in which the scans found the files, also  *)
(* when two entities share an id and when a document id is the path-hash   *)
(* fallback.                                                               *)
(***************************************************************************)
WithoutTimestamp(cat) == [cat EXCEPT !.meta.extracted_at = 0]

C20_ExtractionDeterminism ==
    \A i, j \in DOMAIN extracted :
       WithoutTimestamp(extracted[i]) = WithoutTimestamp(extracted[j])

(***************************************************************************)
(* C21 -- last_synced on every write: every record of every write request  *)
(* of a run (creates, updates, link upserts, mark-inactive status flips)   *)
(* carries a last_synced field.                                            *)
(***************************************************************************)
C21_LastSyncedOnEveryWrite ==
    \A i \in DOMAIN sent :
        sent[i].method # "GET" =>
            \A r \in Range(sent[i].records) : "last_synced" \in DOMAIN r.fields

(***************************************************************************)
(* C22 -- Remote-owned fields are never derived from the local entity: in  *)
(* the records queued for an entity table, a record whose key the fetch    *)
(* did not return holds no remote-owned field, whatever keys the local     *)
(* entity has; a record whose key the fetch returned holds, for every      *)
(* remote-owned field, the fetched record's value, and lacks the field     *)
(* when the fetched record lacks it.                                       *)
(***************************************************************************)
C22_RemoteOwnedNeverLocal ==
    (pc = "upsert" /\ Table \in EntityTables) =>
        \A r \in Range(Flatten(queue)) : \A f \in RemoteOwned(Table) :
            LET k == r.fields[PrimaryField(Table)]
            IN IF k \notin DOMAIN existing \/ f \notin DOMAIN existing[k].fields
               THEN f \notin DOMAIN r.fields
               ELSE f \in DOMAIN r.fields /\ r.fields[f] = existing[k].fields[f]

C22_Witness ==
    /\ pc = "upsert" /\ Table = "Plugins"
    /\ catalog = NotesCatalog
    /\ "owner_notes" \in DOMAIN catalog.plugins[1]
    /\ "p1" \notin DOMAIN existing
    /\ Len(queue) = 1 /\ Len(queue[1]) = 1
    /\ queue[1][1].fields["plugin_id"] = "p1"
    /\ "owner_notes" \notin DOMAIN queue[1][1].fields

(* The primary values under which the base held records when the run       *)
(* started; no write of a curator touches a primary field.                 *)
RemoteKeys0(table_name) ==
    {r.fields[PrimaryField(table_name)] :
        r \in {x \in Range(remote0[table_name]) : HasKey(x, PrimaryField(table_name))}}

(***************************************************************************)
(* C23 -- Create/update classification: a record queued for a table        *)
(* carries a record identifier exactly when the fetch of the table         *)
(* returned a record under its primary value, and then it is that record's *)
(* identifier; once the pass of a table is over its updated counter is the *)
(* number of distinct local keys found remotely and its created counter    *)
(* the number of distinct local keys not found.                            *)
(***************************************************************************)
C23_CreateUpdateClassification ==
    /\ pc = "upsert" =>
          \A r \in Range(Flatten(queue)) :
              LET k == r.fields[PrimaryField(Table)]
              IN /\ "id" \in DOMAIN r <=> k \in DOMAIN existing
                 /\ "id" \in DOMAIN r => r.id = existing[k].id
    /\ \A t \in Range(TableOrder) :
          PassDone(t) =>
              /\ stats[StatsKey(t)].updated =
                    Cardinality(seen_ids(t, catalog) \cap RemoteKeys0(t))
              /\ stats[StatsKey(t)].created =
                    Cardinality(seen_ids(t, catalog) \ RemoteKeys0(t))

C23_Witness ==
    /\ pc = "upsert" /\ Table = "Skills" /\ ~dry_run
    /\ catalog = CollisionCatalog /\ remote0 = CuratedBase
    /\ Len(queue) = 1 /\ Len(queue[1]) = 2
    /\ "id" \notin DOMAIN queue[1][1] /\ queue[1][1].fields["skill_id"] = "p1"
    /\ "id" \in DOMAIN queue[1][2] /\ queue[1][2].id = 3
    /\ stats["plugins"].updated = 1 /\ stats["plugins"].created = 0

(***************************************************************************)
(* Vocabulary of the batching properties.                                  *)
(***************************************************************************)
(* The write requests of the run to a table that went through, in order. *)
WritesTo(table_name) ==
    SelectSeq(sent, LAMBDA q : q.table = table_name /\ q.method # "GET" /\ q.ok)

(* A record that flips the status and does nothing else. *)
IsFlip(r) == DOMAIN r.fields = {"status"} /\ r.fields["status"] = "inactive"

Upserts(table_name) ==
    SelectSeq(WritesTo(table_name), LAMBDA q : \A r \in Range(q.records) : ~IsFlip(r))

Flips(table_name) ==
    SelectSeq(WritesTo(table_name), LAMBDA q : \A r \in Range(q.records) : IsFlip(r))

AllButLastFull(requests) ==
    \A i \in 1..(Len(requests) - 1) : Len(requests[i].records) = BATCH_SIZE

(* Every request holds between one and BATCH_SIZE records, and once the    *)
(* writes of the current table are over they are, in the order sent, the   *)
(* prepared upsert records followed by one status flip for every fetched   *)
(* record that is missing from the snapshot and not inactive.              *)
BatchesSoundAndComplete ==
    /\ \A t \in Range(TableOrder) : \A i \in DOMAIN WritesTo(t) :
          Len(WritesTo(t)[i].records) \in 1..BATCH_SIZE
    /\ (pc = "inactive" /\ iqueue = <<>> /\ ~dry_run) =>
          LET prepared == queued_records(Table, catalog, existing, id_maps, now)
              written == SentRecords(sent, Table)
              flips == SubSeq(written, Len(prepared) + 1, Len(written))
              owed == IF Table \in EntityTables
                      THEN {k \in DOMAIN existing \ seen_ids(Table, catalog) :
                               StatusOf(existing[k]) # "inactive"}
                      ELSE {}
          IN /\ Len(written) >= Len(prepared)
             /\ SubSeq(written, 1, Len(prepared)) = prepared
             /\ Len(flips) = Cardinality(owed)
             /\ {r.id : r \in Range(flips)} = {existing[k].id : k \in owed}
             /\ \A r \in Range(flips) : IsFlip(r)

FetchReturned == fetch_pc = "returned"

(* The listing ends: following the tokens from the first page leads to a   *)
(* page without one.                                                       *)
RECURSIVE EndsFrom(_, _)
EndsFrom(i, fuel) ==
    IF page_server[i].offset = 0 THEN TRUE
    ELSE IF fuel = 0 THEN FALSE
    ELSE EndsFrom(page_server[i].offset, fuel - 1)

ListingEnds == EndsFrom(1, Len(page_server))

ReceivedRecords == UNION {Range(page_server[i].records) : i \in fetch_pages}

(* What a returned fetch holds: all pages were received, every received    *)
(* record with a primary value is in the result under that value, and the  *)
(* result holds nothing else.                                              *)
AllPagesKeyed ==
    /\ fetch_offset = 0
    /\ fetch_pages = DOMAIN page_server
    /\ \A r \in ReceivedRecords :
          HasKey(r, "plugin_id") =>
              /\ r.fields["plugin_id"] \in DOMAIN fetch_records
              /\ fetch_records[r.fields["plugin_id"]] = r
    /\ \A k \in DOMAIN fetch_records :
          /\ fetch_records[k] \in ReceivedRecords
          /\ fetch_records[k].fields["plugin_id"] = k

(***************************************************************************)
(* C25 -- Pagination: every request after the first passes the token the   *)
(* answer before it carried; the fetch returns only on a page without a    *)
(* token and then holds every record of every page that has a primary      *)
(* value, under that value; and it returns if and only if the server comes *)
(* to serve a page without a token.                                        *)
(***************************************************************************)
C25_Pagination ==
    /\ [](FetchReturned => AllPagesKeyed)
    /\ [][fetch_param' = fetch_offset]_fetch_vars
    /\ ListingEnds => <>FetchReturned
    /\ ~ListingEnds => []~FetchReturned

(* No two records of the table share a primary value. *)
UniqueKeys(base, table_name) ==
    \A i, j \in DOMAIN base[table_name] :
        (/\ i # j
         /\ HasKey(base[table_name][i], PrimaryField(table_name))
         /\ HasKey(base[table_name][j], PrimaryField(table_name)))
        => base[table_name][i].fields[PrimaryField(table_name)]
              # base[table_name][j].fields[PrimaryField(table_name)]

(* The positions of the records sent to the table without an identifier    *)
(* under the given primary value.                                          *)
CreatesOf(table_name, key) ==
    {i \in DOMAIN SentRecords(sent, table_name) :
        /\ "id" \notin DOMAIN SentRecords(sent, table_name)[i]
        /\ SentRecords(sent, table_name)[i].fields[PrimaryField(table_name)] = key}

(***************************************************************************)
(* C26 -- Primary-key uniqueness is preserved: when no two records of an   *)
(* entity table shared a primary value before a run that writes and ends   *)
(* well, none do after it, whatever the snapshot; and a run sends at most  *)
(* one record without an identifier per primary value.                     *)
(***************************************************************************)
C26_PrimaryKeyUniqueness ==
    \A t \in EntityTables :
        /\ (pc = "done" /\ ~dry_run /\ UniqueKeys(remote0, t)) => UniqueKeys(remote, t)
        /\ \A k \in seen_ids(t, catalog) : Cardinality(CreatesOf(t, k)) <= 1

(* The records sent to the table in upsert requests, status flips aside. *)
UpsertRecords(table_name) == SelectSeq(SentRecords(sent, table_name), LAMBDA r : ~IsFlip(r))

(***************************************************************************)
(* C27 -- Counters match the writes: after the pass of a table in a run    *)
(* that writes and does not fail, created + updated is the number of       *)
(* records sent in the upsert requests of the table and created is the     *)
(* number of those sent without an identifier, for every snapshot.         *)
(***************************************************************************)
C27_CountersMatchWrites ==
    \A t \in Range(TableOrder) :
        (PassDone(t) /\ ~dry_run /\ pc # "failed") =>
            /\ stats[StatsKey(t)].created + stats[StatsKey(t)].updated = Len(UpsertRecords(t))
            /\ stats[StatsKey(t)].created =
                  Cardinality({i \in DOMAIN UpsertRecords(t) : "id" \notin DOMAIN UpsertRecords(t)[i]})

(* The records of the table that were inactive when the run started, under *)
(* a primary value that the snapshot of the run before did not hold and    *)
(* the snapshot of this run holds again.                                   *)
Reappeared(table_name) ==
    {r \in Range(remote0[table_name]) :
        /\ HasKey(r, PrimaryField(table_name))
        /\ StatusOf(r) = "inactive"
        /\ r.fields[PrimaryField(table_name)] \notin seen_ids(table_name, prev.catalog)
        /\ r.fields[PrimaryField(table_name)] \in seen_ids(table_name, catalog)}

(***************************************************************************)
(* C28 -- Reactivation: when an entity that the snapshot before lacked,    *)
(* and whose record is inactive, is in the snapshot again, its record is   *)
(* no longer inactive after a run that writes and ends well, in Plugins,   *)
(* Skills and Documents alike.                                             *)
(***************************************************************************)
C28_Reactivation ==
    (pc = "done" /\ ~dry_run /\ prev.outcome = "done") =>
        \A t \in EntityTables : \A r \in Reappeared(t) :
            \A r2 \in RecordsWithId(remote, t, r.id) : StatusOf(r2) # "inactive"

LinkTables == {"PluginSkillLinks", "EntityDocLinks"}

(* The identifiers of the records that stand in the table under the key. *)
IdsUnder(base, table_name, key) ==
    {r.id : r \in {x \in Range(base[table_name]) :
                      HasKey(x, PrimaryField(table_name))
                      /\ x.fields[PrimaryField(table_name)] = key}}

(* The link record holds, in the given field, the identifier of a record   *)
(* of the table that stands under the key, when the key is an entity of    *)
(* the snapshot.                                                           *)
Resolved(record, field, table_name, key) ==
    key \in seen_ids(table_name, catalog) =>
        /\ field \in DOMAIN record.fields
        /\ Len(record.fields[field]) = 1
        /\ record.fields[field][1] \in IdsUnder(remote, table_name, key)

(* In a dry run the link record has no such field for a key that had no    *)
(* record when the run started.                                            *)
Unresolved(record, field, table_name, key) ==
    IdsUnder(remote0, table_name, key) = {} => field \notin DOMAIN record.fields

(***************************************************************************)
(* C29 -- Table ordering and link resolution: no request to an entity      *)
(* table follows a request to a link table, and a link pass starts with    *)
(* the three entity passes over; in a run that writes, every queued link   *)
(* record holds the record identifiers of those of its endpoints that are  *)
(* entities of the snapshot (plugin and skill, or document); in a dry run  *)
(* it holds none for an endpoint that had no record.                       *)
(***************************************************************************)
C29_OrderAndLinkResolution ==
    /\ \A i, j \in DOMAIN sent :
          (i < j /\ sent[i].table \in LinkTables) => sent[j].table \in LinkTables
    /\ (Running /\ Table \in LinkTables) => \A t \in EntityTables : PassDone(t)
    /\ (pc = "upsert" /\ Table \in LinkTables
           /\ Len(Flatten(queue)) = Len(LinksOf(Table))) =>
          \A i \in DOMAIN LinksOf(Table) :
              LET rel == LinksOf(Table)[i]
                  record == Flatten(queue)[i]
              IN IF Table = "PluginSkillLinks"
                 THEN IF dry_run
                      THEN /\ Unresolved(record, "plugin", "Plugins", rel.source_id)
                           /\ Unresolved(record, "skill", "Skills", rel.target_id)
                      ELSE /\ Resolved(record, "plugin", "Plugins", rel.source_id)
                           /\ Resolved(record, "skill", "Skills", rel.target_id)
                 ELSE IF dry_run
                      THEN Unresolved(record, "document", "Documents", rel.target_id)
                      ELSE Resolved(record, "document", "Documents", rel.target_id)

C29_Witness ==
    /\ pc = "upsert" /\ Table = "PluginSkillLinks" /\ ~dry_run
    /\ catalog = FirstCatalog /\ remote0 = EmptyBase
    /\ Len(queue) = 1 /\ Len(queue[1]) = 1
    /\ queue[1][1].fields["plugin"] = <<1>>
    /\ queue[1][1].fields["skill"] = <<2>>
    /\ \E i \in DOMAIN sent : sent[i].table = "Documents"

(* The records the table held at the start of the run that the snapshot    *)
(* does not name.                                                          *)
NotInSnapshot(table_name) ==
    {r \in Range(remote0[table_name]) :
        ~(HasKey(r, PrimaryField(table_name))
          /\ r.fields[PrimaryField(table_name)] \in seen_ids(table_name, catalog))}

SameButStatus(before, after) ==
    /\ DOMAIN after.fields \ {"status"} = DOMAIN before.fields \ {"status"}
    /\ \A f \in DOMAIN before.fields \ {"status"} : after.fields[f] = before.fields[f]

(***************************************************************************)
(* C30 -- Mark-inactive changes only the status: every record of a         *)
(* mark-inactive batch is an identifier with the single field status =     *)
(* "inactive" and names a record that the snapshot does not hold; and,     *)
(* curators aside, every record the snapshot does not hold has after the   *)
(* pass of its table the fields and values it had before the run, remote-  *)
(* owned ones included, the status alone excepted.                         *)
(***************************************************************************)
C30_MarkInactiveOnlyStatus ==
    /\ \A b \in Range(iqueue) : \A r \in Range(b) :
          /\ DOMAIN r = {"id", "fields"}
          /\ r.fields = [status |-> "inactive"]
          /\ \E r0 \in NotInSnapshot(Table) : r0.id = r.id
    /\ \A t \in EntityTables :
          (PassDone(t) /\ ~edited) =>
              \A r0 \in NotInSnapshot(t) : \A r2 \in RecordsWithId(remote, t, r0.id) :
                  /\ SameButStatus(r0, r2)
                  /\ StatusOf(r2) \in {StatusOf(r0), "inactive"}

C30_Witness ==
    /\ pc = "done" /\ ~dry_run /\ ~edited
    /\ remote0 = CuratedBase /\ catalog = EmptyCatalog
    /\ \E i \in DOMAIN sent :
          /\ sent[i].method = "PATCH" /\ sent[i].table = "Plugins"
          /\ sent[i].records = <<[id |-> 1, fields |-> [status |-> "inactive"]]>>
    /\ \E r \in Range(remote["Plugins"]) :
          /\ r.id = 1 /\ StatusOf(r) = "inactive"
          /\ r.fields["owner_notes"] = "v1"
          /\ r.fields["last_synced"] = 0

====
